---- MODULE Spec2Model ----
(***************************************************************************)
(* Course management REST backend: users, courses, lectures, homework,     *)
(* submissions and grades, with the role- and relationship-based           *)
(* authorization applied by every endpoint handler.                        *)
(*                                                                         *)
(* The database tables are the state.  Every handler is an operator that   *)
(* maps (state, request) to a response and the new table contents, and an  *)
(* action that applies it and records the response in `last`.              *)
(***************************************************************************)
EXTENDS Integers, FiniteSets, Sequences, TLC

----------------------------------------------------------------------------
(* Bounds of the model *)

MaxCourses == 1
MaxLectures == 1
MaxHomework == 1
MaxSubmissions == 2
MaxGrades == 2
MaxInflight == 2
MaxNow == 3
FirstNow == 1
NewDueDate == 2

----------------------------------------------------------------------------
(* users.models.User: registered users and their role *)

Teachers == {"T1", "T2"}
Students == {"S1", "S2"}
Users == Teachers \cup Students

role(user) == IF user \in Teachers THEN "teacher" ELSE "student"

\* User.is_teacher / User.is_student properties
user_is_teacher(user) == role(user) = "teacher"
user_is_student(user) == role(user) = "student"

NoUser == "-"
NoArg == <<>>
NoCode == "NONE"

VARIABLES
    courses,      \* id -> [teacher, teachers, students, is_active]
    lectures,     \* id -> [course]
    homework,     \* id -> [lecture, title, due_date, is_active]
    submissions,  \* id -> [homework, student, content, submitted_at]
    grades,       \* id -> [submission, grade, comments, graded_by]
    next_id,      \* table name -> next auto-increment primary key
    inflight,     \* submit_homework requests between their check and their save
    last,         \* the request handled last, with its response
    now           \* timezone.now(), the clock the timestamps are read from

vars == <<courses, lectures, homework, submissions, grades, next_id, inflight, last, now>>

tables == <<courses, lectures, homework, submissions, grades, next_id>>

----------------------------------------------------------------------------
(* courses.models.Course *)

is_enrolled_student(course, user) == user \in course.students

is_teacher_drops_owner(course, user) == user \in course.teachers

is_teacher(course, user) == user = course.teacher \/ user \in course.teachers

can_access(course, user) == is_teacher(course, user) \/ is_enrolled_student(course, user)

\* Course.add_student: "ok" or the ValidationError it raises
Course_add_student(course, user) ==
    IF ~user_is_student(user) THEN [exc |-> "ValidationError", course |-> course]
    ELSE IF user \in course.students THEN [exc |-> "ValidationError", course |-> course]
    ELSE [exc |-> "", course |-> [course EXCEPT !.students = @ \cup {user}]]

\* Course.remove_student clearing the whole student set
Course_remove_student_clears_all(course, user) ==
    IF user \in course.students
    THEN [course EXCEPT !.students = {}]
    ELSE course

Course_remove_student(course, user) ==
    IF user \in course.students
    THEN [course EXCEPT !.students = @ \ {user}]
    ELSE course

----------------------------------------------------------------------------
(* api.core.permissions *)

IsTeacher_has_permission(user) == role(user) = "teacher"
IsStudent_has_permission(user) == role(user) = "student"

IsCourseTeacher_has_permission(user) == role(user) = "teacher"
IsCourseTeacher_has_object_permission(user, course) ==
    user = course.teacher \/ user \in course.teachers

IsCourseOwner_has_permission(user) == role(user) = "teacher"
IsCourseOwner_has_object_permission(user, course) == user = course.teacher

----------------------------------------------------------------------------
(* api.core.exceptions / api.core.responses *)

\* Exceptions a handler can end in
PermissionDenied == [cls |-> "rest_framework.PermissionDenied"]
Http404 == [cls |-> "Http404"]
\* is_valid(raise_exception=True) of a serializer
ValidationError == [cls |-> "rest_framework.ValidationError"]
AttributeError == [cls |-> "AttributeError"]
KeyError == [cls |-> "KeyError"]
IntegrityError == [cls |-> "IntegrityError"]

PermissionDeniedException ==
    [cls |-> "APIException", error_code |-> "PERMISSION_DENIED", status_code |-> 403]
ResourceNotFoundException ==
    [cls |-> "APIException", error_code |-> "RESOURCE_NOT_FOUND", status_code |-> 404]
BusinessLogicException(error_code) ==
    [cls |-> "APIException", error_code |-> error_code, status_code |-> 400]

Response(status, code, data) == [status |-> status, code |-> code, data |-> data]

\* APIResponse.error: a missing error_code is dropped from the body
APIResponse_error(error_code, status_code) == Response(status_code, error_code, {})
APIResponse_validation_error == Response(400, "VALIDATION_ERROR", {})
APIResponse_server_error == Response(500, "INTERNAL_SERVER_ERROR", {})

\* custom_exception_handler: the framework's handler answers its own
\* exceptions (the body's error_code is then the getattr default), the
\* custom APIException family carries its own code and status, anything
\* else is a server error.
custom_exception_handler(exc) ==
    IF exc.cls = "rest_framework.PermissionDenied" THEN APIResponse_error("API_ERROR", 403)
    ELSE IF exc.cls = "Http404" THEN APIResponse_error("API_ERROR", 404)
    ELSE IF exc.cls = "rest_framework.ValidationError" THEN APIResponse_error("API_ERROR", 400)
    ELSE IF exc.cls = "APIException" THEN APIResponse_error(exc.error_code, exc.status_code)
    ELSE APIResponse_server_error

----------------------------------------------------------------------------
(* api.v1.courses.views.CourseViewSet *)

CourseViewSet_get_queryset(user) ==
    IF role(user) = "teacher"
    THEN {c \in DOMAIN courses : courses[c].teacher = user \/ user \in courses[c].teachers}
    ELSE {c \in DOMAIN courses : user \in courses[c].students}

Request(op, user, pk, pk2, arg, resp) ==
    [op |-> op, user |-> user, pk |-> pk, pk2 |-> pk2, arg |-> arg,
     status |-> resp.status, code |-> resp.code, data |-> resp.data]

\* create that lets any authenticated user create a course
CourseViewSet_create_result_any_creator(user, is_active) ==
    [resp |-> Response(201, NoCode, {<<"course", next_id.course>>}),
     courses |-> (next_id.course :> [teacher |-> user, teachers |-> {},
                                     students |-> {}, is_active |-> is_active])
                 @@ courses]

\* create: IsTeacher, then perform_create saves with teacher = request.user
CourseViewSet_create_result(user, is_active) ==
    IF ~IsTeacher_has_permission(user)
    THEN [resp |-> custom_exception_handler(PermissionDenied), courses |-> courses]
    ELSE [resp |-> Response(201, NoCode, {<<"course", next_id.course>>}),
          courses |-> (next_id.course :> [teacher |-> user, teachers |-> {},
                                          students |-> {}, is_active |-> is_active])
                      @@ courses]

CourseViewSet_create(user, is_active) ==
    /\ next_id.course <= MaxCourses
    /\ LET r == CourseViewSet_create_result(user, is_active) IN
        /\ courses' = r.courses
        /\ next_id' = IF r.resp.status = 201
                      THEN [next_id EXCEPT !.course = @ + 1] ELSE next_id
        /\ last' = Request("course_create", user, 0, 0, NoArg, r.resp)
    /\ UNCHANGED <<lectures, homework, submissions, grades, inflight, now>>

\* Bodies of a course update.  title and description are required fields
\* of CourseUpdateSerializer, is_active is not; a body is complete when it
\* carries the required ones, and sets is_active when it carries that field.
CourseBody ==
    [close       |-> [complete |-> TRUE, sets_active |-> TRUE, is_active |-> FALSE],
     open        |-> [complete |-> TRUE, sets_active |-> TRUE, is_active |-> TRUE],
     only_close  |-> [complete |-> FALSE, sets_active |-> TRUE, is_active |-> FALSE],
     empty       |-> [complete |-> FALSE, sets_active |-> FALSE, is_active |-> FALSE]]
CourseBodies == DOMAIN CourseBody

CourseUpdateSerializer_is_valid(body, partial) == partial \/ body.complete

\* update guarded by IsCourseTeacher instead of IsCourseOwner
CourseViewSet_update_result_course_teacher(user, pk, partial, name) ==
    IF ~IsCourseTeacher_has_permission(user)
    THEN [resp |-> custom_exception_handler(PermissionDenied), courses |-> courses]
    ELSE IF pk \notin CourseViewSet_get_queryset(user)
    THEN [resp |-> custom_exception_handler(Http404), courses |-> courses]
    ELSE IF ~IsCourseTeacher_has_object_permission(user, courses[pk])
    THEN [resp |-> custom_exception_handler(PermissionDenied), courses |-> courses]
    ELSE IF ~CourseUpdateSerializer_is_valid(CourseBody[name], partial)
    THEN [resp |-> custom_exception_handler(ValidationError), courses |-> courses]
    ELSE [resp |-> Response(200, NoCode, {<<"course", pk>>}),
          courses |-> [courses EXCEPT
                          ![pk].is_active = IF CourseBody[name].sets_active
                                            THEN CourseBody[name].is_active ELSE @]]

\* update and partial_update: IsCourseOwner, then get_object, then the
\* serializer; partial is TRUE for PATCH
CourseViewSet_update_result(user, pk, partial, name) ==
    IF ~IsCourseOwner_has_permission(user)
    THEN [resp |-> custom_exception_handler(PermissionDenied), courses |-> courses]
    ELSE IF pk \notin CourseViewSet_get_queryset(user)
    THEN [resp |-> custom_exception_handler(Http404), courses |-> courses]
    ELSE IF ~IsCourseOwner_has_object_permission(user, courses[pk])
    THEN [resp |-> custom_exception_handler(PermissionDenied), courses |-> courses]
    ELSE IF ~CourseUpdateSerializer_is_valid(CourseBody[name], partial)
    THEN [resp |-> custom_exception_handler(ValidationError), courses |-> courses]
    ELSE [resp |-> Response(200, NoCode, {<<"course", pk>>}),
          courses |-> [courses EXCEPT
                          ![pk].is_active = IF CourseBody[name].sets_active
                                            THEN CourseBody[name].is_active ELSE @]]

CourseViewSet_update(user, pk, partial, name) ==
    LET r == CourseViewSet_update_result(user, pk, partial, name) IN
        /\ courses' = r.courses
        /\ last' = Request(IF partial THEN "course_partial_update" ELSE "course_update",
                           user, pk, 0, <<name>>, r.resp)
        /\ UNCHANGED <<lectures, homework, submissions, grades, next_id, inflight, now>>

\* A table without the rows whose ids are in gone
without(table, gone) == [id \in DOMAIN table \ gone |-> table[id]]

\* on_delete=CASCADE: the rows that go with a course
course_lectures(pk) == {l \in DOMAIN lectures : lectures[l].course = pk}
lectures_homework(ls) == {h \in DOMAIN homework : homework[h].lecture \in ls}
homework_submissions(hs) == {s \in DOMAIN submissions : submissions[s].homework \in hs}
submissions_grades(ss) == {g \in DOMAIN grades : grades[g].submission \in ss}

\* destroy: IsCourseOwner, then get_object, then instance.delete()
CourseViewSet_destroy_result(user, pk) ==
    IF ~IsCourseOwner_has_permission(user)
    THEN [resp |-> custom_exception_handler(PermissionDenied), deleted |-> {}]
    ELSE IF pk \notin CourseViewSet_get_queryset(user)
    THEN [resp |-> custom_exception_handler(Http404), deleted |-> {}]
    ELSE IF ~IsCourseOwner_has_object_permission(user, courses[pk])
    THEN [resp |-> custom_exception_handler(PermissionDenied), deleted |-> {}]
    ELSE [resp |-> Response(204, NoCode, {}), deleted |-> {pk}]

CourseViewSet_destroy(user, pk) ==
    LET r == CourseViewSet_destroy_result(user, pk)
        ls == UNION {course_lectures(c) : c \in r.deleted}
        hs == lectures_homework(ls)
        ss == homework_submissions(hs)
        gs == submissions_grades(ss) IN
        /\ courses' = without(courses, r.deleted)
        /\ lectures' = without(lectures, ls)
        /\ homework' = without(homework, hs)
        /\ submissions' = without(submissions, ss)
        /\ grades' = without(grades, gs)
        /\ last' = Request("course_destroy", user, pk, 0, NoArg, r.resp)
        /\ UNCHANGED <<next_id, inflight, now>>

\* A user id that names no row of the users table
Nobody == "U0"
UserIds == Users \cup {Nobody}

\* CourseEnrollmentSerializer.validate_user_id: the id must name a user
CourseEnrollmentSerializer_is_valid(user_id) == user_id \in Users

\* Frame of a handler that only touches the courses table
CourseStep(op, user, pk, arg, r) ==
    /\ courses' = r.courses
    /\ last' = Request(op, user, pk, 0, arg, r.resp)
    /\ UNCHANGED <<lectures, homework, submissions, grades, next_id, inflight, now>>

\* add_student without its look at the role of the user it adds
add_student_result_any_role(user, pk, user_id) ==
    IF ~IsCourseTeacher_has_permission(user)
    THEN [resp |-> custom_exception_handler(PermissionDenied), courses |-> courses]
    ELSE IF pk \notin CourseViewSet_get_queryset(user)
    THEN [resp |-> custom_exception_handler(Http404), courses |-> courses]
    ELSE IF ~IsCourseTeacher_has_object_permission(user, courses[pk])
    THEN [resp |-> custom_exception_handler(PermissionDenied), courses |-> courses]
    ELSE IF ~CourseEnrollmentSerializer_is_valid(user_id)
    THEN [resp |-> APIResponse_validation_error, courses |-> courses]
    ELSE [resp |-> Response(200, NoCode, {}),
          courses |-> [courses EXCEPT ![pk].students = @ \cup {user_id}]]

\* add_student: IsCourseTeacher; the student is added with a plain
\* students.add, whatever the course's is_active and present enrollment
add_student_result(user, pk, user_id) ==
    IF ~IsCourseTeacher_has_permission(user)
    THEN [resp |-> custom_exception_handler(PermissionDenied), courses |-> courses]
    ELSE IF pk \notin CourseViewSet_get_queryset(user)
    THEN [resp |-> custom_exception_handler(Http404), courses |-> courses]
    ELSE IF ~IsCourseTeacher_has_object_permission(user, courses[pk])
    THEN [resp |-> custom_exception_handler(PermissionDenied), courses |-> courses]
    ELSE IF ~CourseEnrollmentSerializer_is_valid(user_id)
    THEN [resp |-> APIResponse_validation_error, courses |-> courses]
    ELSE IF role(user_id) # "student"
    THEN [resp |-> APIResponse_error("INVALID_USER_ROLE", 400), courses |-> courses]
    ELSE [resp |-> Response(200, NoCode, {}),
          courses |-> [courses EXCEPT ![pk].students = @ \cup {user_id}]]

add_student(user, pk, user_id) ==
    CourseStep("add_student", user, pk, <<user_id>>, add_student_result(user, pk, user_id))

\* remove_student open to every caller who can see the course
remove_student_result_any_member(user, pk, user_id) ==
    IF pk \notin CourseViewSet_get_queryset(user)
    THEN [resp |-> custom_exception_handler(Http404), courses |-> courses]
    ELSE IF user_id \notin Users
    THEN [resp |-> APIResponse_error(NoCode, 404), courses |-> courses]
    ELSE IF role(user_id) # "student"
    THEN [resp |-> APIResponse_error("INVALID_USER_ROLE", 400), courses |-> courses]
    ELSE IF user_id \notin courses[pk].students
    THEN [resp |-> APIResponse_error(NoCode, 400), courses |-> courses]
    ELSE [resp |-> Response(200, NoCode, {}),
          courses |-> [courses EXCEPT ![pk].students = @ \ {user_id}]]

remove_student_result(user, pk, user_id) ==
    IF ~IsCourseTeacher_has_permission(user)
    THEN [resp |-> custom_exception_handler(PermissionDenied), courses |-> courses]
    ELSE IF pk \notin CourseViewSet_get_queryset(user)
    THEN [resp |-> custom_exception_handler(Http404), courses |-> courses]
    ELSE IF ~IsCourseTeacher_has_object_permission(user, courses[pk])
    THEN [resp |-> custom_exception_handler(PermissionDenied), courses |-> courses]
    ELSE IF user_id \notin Users
    THEN [resp |-> APIResponse_error(NoCode, 404), courses |-> courses]
    ELSE IF role(user_id) # "student"
    THEN [resp |-> APIResponse_error("INVALID_USER_ROLE", 400), courses |-> courses]
    ELSE IF user_id \notin courses[pk].students
    THEN [resp |-> APIResponse_error(NoCode, 400), courses |-> courses]
    ELSE [resp |-> Response(200, NoCode, {}),
          courses |-> [courses EXCEPT ![pk].students = @ \ {user_id}]]

remove_student(user, pk, user_id) ==
    CourseStep("remove_student", user, pk, <<user_id>>, remove_student_result(user, pk, user_id))

\* add_teacher: IsCourseTeacher; any teacher-role user, the owner included,
\* can be put in the co-teacher set
add_teacher_result(user, pk, user_id) ==
    IF ~IsCourseTeacher_has_permission(user)
    THEN [resp |-> custom_exception_handler(PermissionDenied), courses |-> courses]
    ELSE IF pk \notin CourseViewSet_get_queryset(user)
    THEN [resp |-> custom_exception_handler(Http404), courses |-> courses]
    ELSE IF ~IsCourseTeacher_has_object_permission(user, courses[pk])
    THEN [resp |-> custom_exception_handler(PermissionDenied), courses |-> courses]
    ELSE IF ~CourseEnrollmentSerializer_is_valid(user_id)
    THEN [resp |-> APIResponse_validation_error, courses |-> courses]
    ELSE IF role(user_id) # "teacher"
    THEN [resp |-> APIResponse_error("INVALID_USER_ROLE", 400), courses |-> courses]
    ELSE [resp |-> Response(200, NoCode, {}),
          courses |-> [courses EXCEPT ![pk].teachers = @ \cup {user_id}]]

add_teacher(user, pk, user_id) ==
    CourseStep("add_teacher", user, pk, <<user_id>>, add_teacher_result(user, pk, user_id))

\* remove_teacher without its "Prevent removing the course owner" branch
remove_teacher_result_no_owner_check(user, pk, user_id) ==
    IF ~IsCourseTeacher_has_permission(user)
    THEN [resp |-> custom_exception_handler(PermissionDenied), courses |-> courses]
    ELSE IF pk \notin CourseViewSet_get_queryset(user)
    THEN [resp |-> custom_exception_handler(Http404), courses |-> courses]
    ELSE IF ~IsCourseTeacher_has_object_permission(user, courses[pk])
    THEN [resp |-> custom_exception_handler(PermissionDenied), courses |-> courses]
    ELSE IF user_id \notin Users
    THEN [resp |-> APIResponse_error(NoCode, 404), courses |-> courses]
    ELSE IF role(user_id) # "teacher"
    THEN [resp |-> APIResponse_error("INVALID_USER_ROLE", 400), courses |-> courses]
    ELSE IF user_id \notin courses[pk].teachers
    THEN [resp |-> APIResponse_error(NoCode, 400), courses |-> courses]
    ELSE [resp |-> Response(200, NoCode, {}),
          courses |-> [courses EXCEPT ![pk].teachers = @ \ {user_id}]]

remove_teacher_result(user, pk, user_id) ==
    IF ~IsCourseTeacher_has_permission(user)
    THEN [resp |-> custom_exception_handler(PermissionDenied), courses |-> courses]
    ELSE IF pk \notin CourseViewSet_get_queryset(user)
    THEN [resp |-> custom_exception_handler(Http404), courses |-> courses]
    ELSE IF ~IsCourseTeacher_has_object_permission(user, courses[pk])
    THEN [resp |-> custom_exception_handler(PermissionDenied), courses |-> courses]
    ELSE IF user_id \notin Users
    THEN [resp |-> APIResponse_error(NoCode, 404), courses |-> courses]
    ELSE IF role(user_id) # "teacher"
    THEN [resp |-> APIResponse_error("INVALID_USER_ROLE", 400), courses |-> courses]
    ELSE IF user_id \notin courses[pk].teachers
    THEN [resp |-> APIResponse_error(NoCode, 400), courses |-> courses]
    ELSE IF user_id = courses[pk].teacher
    THEN [resp |-> APIResponse_error(NoCode, 400), courses |-> courses]
    ELSE [resp |-> Response(200, NoCode, {}),
          courses |-> [courses EXCEPT ![pk].teachers = @ \ {user_id}]]

remove_teacher(user, pk, user_id) ==
    CourseStep("remove_teacher", user, pk, <<user_id>>, remove_teacher_result(user, pk, user_id))

\* enroll_in_course: get_object looks the course up in get_queryset, which
\* for a student holds only the courses the student is already enrolled in
enroll_in_course_result(user, pk) ==
    IF pk \notin CourseViewSet_get_queryset(user)
    THEN [resp |-> custom_exception_handler(Http404), courses |-> courses]
    ELSE IF ~user_is_student(user)
    THEN [resp |-> APIResponse_error(NoCode, 403), courses |-> courses]
    ELSE IF ~courses[pk].is_active
    THEN [resp |-> APIResponse_error(NoCode, 400), courses |-> courses]
    ELSE IF user \in courses[pk].students
    THEN [resp |-> APIResponse_error(NoCode, 400), courses |-> courses]
    ELSE LET added == Course_add_student(courses[pk], user) IN
         IF added.exc = "ValidationError"
         THEN [resp |-> APIResponse_error(NoCode, 400), courses |-> courses]
         ELSE [resp |-> Response(200, NoCode, {}),
               courses |-> [courses EXCEPT ![pk] = added.course]]

enroll_in_course(user, pk) ==
    CourseStep("enroll_in_course", user, pk, NoArg, enroll_in_course_result(user, pk))

unenroll_from_course_result(user, pk) ==
    IF pk \notin CourseViewSet_get_queryset(user)
    THEN [resp |-> custom_exception_handler(Http404), courses |-> courses]
    ELSE IF ~user_is_student(user)
    THEN [resp |-> APIResponse_error(NoCode, 403), courses |-> courses]
    ELSE IF user \notin courses[pk].students
    THEN [resp |-> APIResponse_error(NoCode, 400), courses |-> courses]
    ELSE [resp |-> Response(200, NoCode, {}),
          courses |-> [courses EXCEPT ![pk] = Course_remove_student(@, user)]]

unenroll_from_course(user, pk) ==
    CourseStep("unenroll_from_course", user, pk, NoArg, unenroll_from_course_result(user, pk))

\* Primary keys a request can name: the rows that were ever created and
\* one that never was
CoursePks == 1..(MaxCourses + 1)

LecturePks == 1..(MaxLectures + 1)
HomeworkPks == 1..(MaxHomework + 1)
SubmissionPks == 1..(MaxSubmissions + 1)

\* Topics of lectures and titles of homework: the one a row is created
\* with and the one an update writes
NewTopic == "topic"
Topics == {NewTopic, "topic2"}
NewTitle == "title"
Titles == {NewTitle, "title2"}

\* Due dates a request body can carry, on the scale of the clock; the one
\* the create requests carry is NewDueDate
DueDates == FirstNow..MaxNow

\* create_lecture: the course comes from get_queryset, then Course.is_teacher
create_lecture_result(user, pk, valid) ==
    IF pk \notin CourseViewSet_get_queryset(user)
    THEN [resp |-> custom_exception_handler(Http404), lectures |-> lectures]
    ELSE IF ~is_teacher(courses[pk], user)
    THEN [resp |-> APIResponse_error(NoCode, 403), lectures |-> lectures]
    ELSE IF ~valid
    THEN [resp |-> APIResponse_validation_error, lectures |-> lectures]
    ELSE [resp |-> Response(201, NoCode, {<<"lecture", next_id.lecture>>}),
          lectures |-> (next_id.lecture :> [course |-> pk, topic |-> NewTopic]) @@ lectures]

create_lecture(user, pk, valid) ==
    /\ next_id.lecture <= MaxLectures
    /\ LET r == create_lecture_result(user, pk, valid) IN
        /\ lectures' = r.lectures
        /\ next_id' = IF r.resp.status = 201
                      THEN [next_id EXCEPT !.lecture = @ + 1] ELSE next_id
        /\ last' = Request("create_lecture", user, pk, 0,
                           <<IF valid THEN "valid" ELSE "invalid">>, r.resp)
    /\ UNCHANGED <<courses, homework, submissions, grades, inflight, now>>

----------------------------------------------------------------------------
(* api.core.permissions on lectures, homework and submissions *)

\* The course a homework row hangs under
homework_course(hw) == courses[lectures[hw.lecture].course]
submission_course(sub) == homework_course(homework[sub.homework])

IsHomeworkTeacher_has_permission(user) == role(user) = "teacher"

\* has_object_permission reads obj.lecture.course: an object without a
\* lecture attribute makes the attribute access raise
IsHomeworkTeacher_has_object_permission(user, obj) ==
    IF "lecture" \notin DOMAIN obj
    THEN [exc |-> "AttributeError", ok |-> FALSE]
    ELSE LET course == courses[lectures[obj.lecture].course] IN
         [exc |-> "", ok |-> (user = course.teacher \/ user \in course.teachers)]

IsHomeworkStudent_has_permission(user) == role(user) = "student"
IsHomeworkStudent_has_object_permission(user, obj) ==
    user \in courses[lectures[obj.lecture].course].students

----------------------------------------------------------------------------
(* homework.models: table constraints *)

\* HomeworkSubmission.Meta.unique_together
HomeworkSubmission_no_unique_together == {}

HomeworkSubmission_unique_together == {"homework", "student"}

\* Grade.submission is a OneToOneField: unique
Grade_unique == {"submission"}

\* A row that repeats, on all the unique fields, a row already in the table
violates_unique(table, row, fields) ==
    /\ fields # {}
    /\ \E id \in DOMAIN table : \A f \in fields : table[id][f] = row[f]

\* INSERT: the storage layer refuses a row that breaks a unique constraint
db_insert(table, id, row, fields) ==
    IF violates_unique(table, row, fields)
    THEN [exc |-> "IntegrityError", table |-> table]
    ELSE [exc |-> "", table |-> (id :> row) @@ table]

----------------------------------------------------------------------------
(* api.v1.homework.views.HomeworkViewSet *)

\* Homework.is_overdue and Homework.can_submit, read at the time `at`
Homework_is_overdue(hw, at) == at > hw.due_date

Homework_can_submit(hw, user, at) ==
    IF ~hw.is_active THEN FALSE
    ELSE IF Homework_is_overdue(hw, at) THEN FALSE
    ELSE is_enrolled_student(homework_course(hw), user)

HomeworkViewSet_get_queryset(user) ==
    IF user_is_teacher(user)
    THEN {h \in DOMAIN homework :
            \/ homework_course(homework[h]).teacher = user
            \/ user \in homework_course(homework[h]).teachers}
    ELSE {h \in DOMAIN homework : user \in homework_course(homework[h]).students}

\* HomeworkCreateSerializer: the lecture must exist and validate_lecture
\* wants the caller to teach its course
HomeworkCreateSerializer_is_valid(user, lecture) ==
    /\ lecture \in DOMAIN lectures
    /\ LET course == courses[lectures[lecture].course] IN
         user = course.teacher \/ user \in course.teachers

HomeworkViewSet_create_result(user, lecture) ==
    IF ~IsHomeworkTeacher_has_permission(user)
    THEN [resp |-> custom_exception_handler(PermissionDenied), homework |-> homework]
    ELSE IF ~HomeworkCreateSerializer_is_valid(user, lecture)
    THEN [resp |-> APIResponse_validation_error, homework |-> homework]
    ELSE [resp |-> Response(201, NoCode, {<<"homework", next_id.homework>>}),
          homework |-> (next_id.homework :> [lecture |-> lecture, title |-> NewTitle,
                                             due_date |-> NewDueDate, is_active |-> TRUE])
                       @@ homework]

HomeworkViewSet_create(user, lecture) ==
    /\ next_id.homework <= MaxHomework
    /\ LET r == HomeworkViewSet_create_result(user, lecture) IN
        /\ homework' = r.homework
        /\ next_id' = IF r.resp.status = 201
                      THEN [next_id EXCEPT !.homework = @ + 1] ELSE next_id
        /\ last' = Request("homework_create", user, 0, lecture, NoArg, r.resp)
    /\ UNCHANGED <<courses, lectures, submissions, grades, inflight, now>>

\* Submission contents a request can carry; the blank one fails validation
Contents == {"a", "b", ""}

HomeworkSubmissionCreateSerializer_is_valid(content) == content # ""

\* HomeworkSubmissionCreateSerializer.create reads self.context["request"]
\* before it inserts the row
HomeworkSubmissionCreateSerializer_create(context, row) ==
    IF "request" \notin context
    THEN [exc |-> "KeyError", table |-> submissions]
    ELSE db_insert(submissions, next_id.submission, row,
                   HomeworkSubmission_unique_together)

\* The serializer context of a view's get_serializer, which submit_homework
\* does not use
submit_homework_context_of_get_serializer == {"request", "format", "view"}

\* The serializer context submit_homework constructs the serializer with
submit_homework_context == {}

\* submit_homework whose checks leave out the look for an earlier submission
submit_homework_check_no_duplicate_check(user, pk) ==
    IF ~IsHomeworkStudent_has_permission(user)
    THEN [exc |-> "raised", resp |-> custom_exception_handler(PermissionDenied)]
    ELSE IF pk \notin HomeworkViewSet_get_queryset(user)
    THEN [exc |-> "raised", resp |-> custom_exception_handler(Http404)]
    ELSE IF ~IsHomeworkStudent_has_object_permission(user, homework[pk])
    THEN [exc |-> "raised", resp |-> custom_exception_handler(PermissionDenied)]
    ELSE IF ~user_is_student(user)
    THEN [exc |-> "raised", resp |-> custom_exception_handler(PermissionDeniedException)]
    ELSE IF user \notin homework_course(homework[pk]).students
    THEN [exc |-> "raised", resp |-> custom_exception_handler(PermissionDeniedException)]
    ELSE [exc |-> "", resp |-> Response(0, NoCode, {})]

\* submit_homework up to and including the duplicate check: the exception it
\* raises or the early response, "" when the request goes on to the save
submit_homework_check(user, pk) ==
    IF ~IsHomeworkStudent_has_permission(user)
    THEN [exc |-> "raised", resp |-> custom_exception_handler(PermissionDenied)]
    ELSE IF pk \notin HomeworkViewSet_get_queryset(user)
    THEN [exc |-> "raised", resp |-> custom_exception_handler(Http404)]
    ELSE IF ~IsHomeworkStudent_has_object_permission(user, homework[pk])
    THEN [exc |-> "raised", resp |-> custom_exception_handler(PermissionDenied)]
    ELSE IF ~user_is_student(user)
    THEN [exc |-> "raised", resp |-> custom_exception_handler(PermissionDeniedException)]
    ELSE IF user \notin homework_course(homework[pk]).students
    THEN [exc |-> "raised", resp |-> custom_exception_handler(PermissionDeniedException)]
    ELSE IF \E s \in DOMAIN submissions :
               submissions[s].homework = pk /\ submissions[s].student = user
    THEN [exc |-> "raised",
          resp |-> custom_exception_handler(BusinessLogicException("DUPLICATE_SUBMISSION"))]
    ELSE [exc |-> "", resp |-> Response(0, NoCode, {})]

\* submit_homework from the serializer on
submit_homework_save(user, pk, content) ==
    IF ~HomeworkSubmissionCreateSerializer_is_valid(content)
    THEN [resp |-> APIResponse_validation_error, submissions |-> submissions]
    ELSE LET created == HomeworkSubmissionCreateSerializer_create(
                            submit_homework_context,
                            [homework |-> pk, student |-> user, content |-> content,
                             submitted_at |-> now]) IN
         IF created.exc # ""
         THEN [resp |-> custom_exception_handler([cls |-> created.exc]),
               submissions |-> submissions]
         ELSE [resp |-> Response(201, NoCode, {<<"submission", next_id.submission>>}),
               submissions |-> created.table]

\* submit_homework saving the submission for the student named in the
\* request body instead of the caller, with no check of the caller
submit_homework_result_on_behalf(user, pk, content) ==
    IF pk \notin DOMAIN homework \/ content = ""
    THEN [resp |-> APIResponse_validation_error, submissions |-> submissions]
    ELSE LET created == db_insert(submissions, next_id.submission,
                                  [homework |-> pk, student |-> "S1", content |-> content,
                                   submitted_at |-> now],
                                  HomeworkSubmission_unique_together) IN
         IF created.exc # ""
         THEN [resp |-> custom_exception_handler([cls |-> created.exc]),
               submissions |-> submissions]
         ELSE [resp |-> Response(201, NoCode, {<<"submission", next_id.submission>>}),
               submissions |-> created.table]

submit_homework_result(user, pk, content) ==
    LET checked == submit_homework_check(user, pk) IN
    IF checked.exc # ""
    THEN [resp |-> checked.resp, submissions |-> submissions]
    ELSE submit_homework_save(user, pk, content)

SubmissionStep(op, user, pk, arg, r) ==
    /\ submissions' = r.submissions
    /\ next_id' = IF r.resp.status = 201
                  THEN [next_id EXCEPT !.submission = @ + 1] ELSE next_id
    /\ last' = Request(op, user, pk, 0, arg, r.resp)
    /\ UNCHANGED <<courses, lectures, homework, grades, inflight, now>>

\* One request handled from start to end
submit_homework(user, pk, content) ==
    /\ next_id.submission <= MaxSubmissions
    /\ SubmissionStep("submit_homework", user, pk, <<content>>,
                      submit_homework_result(user, pk, content))

----------------------------------------------------------------------------
(* api.v1.homework.views.HomeworkSubmissionViewSet *)

\* HomeworkSubmission.is_late
HomeworkSubmission_is_late(submission, homework_table) ==
    submission.submitted_at > homework_table[submission.homework].due_date

HomeworkSubmissionViewSet_get_queryset(user) ==
    IF user_is_teacher(user)
    THEN {s \in DOMAIN submissions :
            \/ submission_course(submissions[s]).teacher = user
            \/ user \in submission_course(submissions[s]).teachers}
    ELSE {s \in DOMAIN submissions : submissions[s].student = user}

\* hasattr(submission, "grade"): the reverse side of the one-to-one relation
has_grade(pk) == \E g \in DOMAIN grades : grades[g].submission = pk
grade_of(pk) == CHOOSE g \in DOMAIN grades : grades[g].submission = pk

\* Grade.grade validators
MinGrade == 0
MaxGrade == 100

\* Request bodies of grade_submission and update_grade; a field that the
\* body leaves out is Absent
AbsentGrade == -1
AbsentComments == "-"
GradePayload ==
    [low     |-> [grade |-> MinGrade, comments |-> "x"],
     high    |-> [grade |-> MaxGrade, comments |-> "x"],
     over    |-> [grade |-> MaxGrade + 1, comments |-> AbsentComments],
     nograde |-> [grade |-> AbsentGrade, comments |-> AbsentComments]]
GradePayloads == DOMAIN GradePayload

\* Bodies sent to update_grade, with the method that carries them
UpdateRequests ==
    {<<"PUT", "low">>, <<"PUT", "high">>, <<"PUT", "over">>, <<"PUT", "nograde">>,
     <<"PATCH", "nograde">>}

\* GradeCreateSerializer / GradeUpdateSerializer validation: grade is
\* required unless the update is partial, and lies within the validators
Grade_is_valid(payload, partial) ==
    IF payload.grade = AbsentGrade THEN partial
    ELSE payload.grade >= MinGrade /\ payload.grade <= MaxGrade

\* GradeCreateSerializer.create reads self.context["request"] before it
\* inserts the row
GradeCreateSerializer_create(context, row) ==
    IF "request" \notin context
    THEN [exc |-> "KeyError", table |-> grades]
    ELSE db_insert(grades, next_id.grade, row, Grade_unique)

\* The serializer context grade_submission constructs the serializer with
grade_submission_context == {}

\* get_permissions of the viewset: grade_submission is guarded by
\* IsHomeworkTeacher, whose object check is handed the submission
grade_submission_result(user, pk, name) ==
    IF ~IsHomeworkTeacher_has_permission(user)
    THEN [resp |-> custom_exception_handler(PermissionDenied), grades |-> grades]
    ELSE IF pk \notin HomeworkSubmissionViewSet_get_queryset(user)
    THEN [resp |-> custom_exception_handler(Http404), grades |-> grades]
    ELSE LET perm == IsHomeworkTeacher_has_object_permission(user, submissions[pk])
             payload == GradePayload[name] IN
         IF perm.exc # ""
         THEN [resp |-> custom_exception_handler([cls |-> perm.exc]), grades |-> grades]
         ELSE IF ~perm.ok
         THEN [resp |-> custom_exception_handler(PermissionDenied), grades |-> grades]
         ELSE IF ~user_is_teacher(user)
         THEN [resp |-> custom_exception_handler(PermissionDeniedException), grades |-> grades]
         ELSE IF ~is_teacher(submission_course(submissions[pk]), user)
         THEN [resp |-> custom_exception_handler(PermissionDeniedException), grades |-> grades]
         ELSE IF has_grade(pk)
         THEN [resp |-> custom_exception_handler(BusinessLogicException("GRADE_ALREADY_EXISTS")),
               grades |-> grades]
         ELSE IF ~Grade_is_valid(payload, FALSE)
         THEN [resp |-> APIResponse_validation_error, grades |-> grades]
         ELSE LET created == GradeCreateSerializer_create(
                                 grade_submission_context,
                                 [submission |-> pk, grade |-> payload.grade,
                                  comments |-> IF payload.comments = AbsentComments
                                               THEN "" ELSE payload.comments,
                                  graded_by |-> user]) IN
              IF created.exc # ""
              THEN [resp |-> custom_exception_handler([cls |-> created.exc]),
                    grades |-> grades]
              ELSE [resp |-> Response(201, NoCode, {<<"submission", pk>>}),
                    grades |-> created.table]

GradeStep(op, user, pk, arg, r) ==
    /\ grades' = r.grades
    /\ next_id' = IF r.resp.status = 201
                  THEN [next_id EXCEPT !.grade = @ + 1] ELSE next_id
    /\ last' = Request(op, user, pk, 0, arg, r.resp)
    /\ UNCHANGED <<courses, lectures, homework, submissions, inflight, now>>

grade_submission(user, pk, name) ==
    /\ next_id.grade <= MaxGrades
    /\ GradeStep("grade_submission", user, pk,
                 <<IF Grade_is_valid(GradePayload[name], FALSE) THEN "valid" ELSE "invalid">>,
                 grade_submission_result(user, pk, name))

\* GradeUpdateSerializer.save: the fields of the body overwrite the row
Grade_update(row, payload) ==
    [row EXCEPT
        !.grade = IF payload.grade = AbsentGrade THEN @ ELSE payload.grade,
        !.comments = IF payload.comments = AbsentComments THEN @ ELSE payload.comments]

\* update_grade that creates the missing grade instead of refusing
update_grade_result_upsert(user, pk, method, name) ==
    IF pk \notin HomeworkSubmissionViewSet_get_queryset(user)
    THEN [resp |-> custom_exception_handler(Http404), grades |-> grades]
    ELSE IF ~user_is_teacher(user)
    THEN [resp |-> custom_exception_handler(PermissionDeniedException), grades |-> grades]
    ELSE IF ~is_teacher(submission_course(submissions[pk]), user)
    THEN [resp |-> custom_exception_handler(PermissionDeniedException), grades |-> grades]
    ELSE IF ~Grade_is_valid(GradePayload[name], method = "PATCH")
    THEN [resp |-> APIResponse_validation_error, grades |-> grades]
    ELSE IF ~has_grade(pk)
    THEN [resp |-> Response(200, NoCode, {<<"submission", pk>>}),
          grades |-> (next_id.grade :>
                        [submission |-> pk, grade |-> MinGrade, comments |-> "",
                         graded_by |-> user]) @@ grades]
    ELSE [resp |-> Response(200, NoCode, {<<"submission", pk>>}),
          grades |-> [grades EXCEPT ![grade_of(pk)] = Grade_update(@, GradePayload[name])]]

\* update_grade without its two teacher checks
update_grade_result_no_teacher_checks(user, pk, method, name) ==
    IF pk \notin HomeworkSubmissionViewSet_get_queryset(user)
    THEN [resp |-> custom_exception_handler(Http404), grades |-> grades]
    ELSE IF ~has_grade(pk)
    THEN [resp |-> custom_exception_handler(BusinessLogicException("GRADE_NOT_FOUND")),
          grades |-> grades]
    ELSE IF ~Grade_is_valid(GradePayload[name], method = "PATCH")
    THEN [resp |-> APIResponse_validation_error, grades |-> grades]
    ELSE [resp |-> Response(200, NoCode, {<<"submission", pk>>}),
          grades |-> [grades EXCEPT ![grade_of(pk)] = Grade_update(@, GradePayload[name])]]

\* update_grade saving the body before it validates it
update_grade_result_saves_before_validation(user, pk, method, name) ==
    IF pk \notin HomeworkSubmissionViewSet_get_queryset(user)
    THEN [resp |-> custom_exception_handler(Http404), grades |-> grades]
    ELSE IF ~user_is_teacher(user)
    THEN [resp |-> custom_exception_handler(PermissionDeniedException), grades |-> grades]
    ELSE IF ~is_teacher(submission_course(submissions[pk]), user)
    THEN [resp |-> custom_exception_handler(PermissionDeniedException), grades |-> grades]
    ELSE IF ~has_grade(pk)
    THEN [resp |-> custom_exception_handler(BusinessLogicException("GRADE_NOT_FOUND")),
          grades |-> grades]
    ELSE [resp |-> IF Grade_is_valid(GradePayload[name], method = "PATCH")
                   THEN Response(200, NoCode, {<<"submission", pk>>})
                   ELSE APIResponse_validation_error,
          grades |-> [grades EXCEPT ![grade_of(pk)] = Grade_update(@, GradePayload[name])]]

\* update_grade: no entry of its own in get_permissions, so IsAuthenticated
update_grade_result(user, pk, method, name) ==
    IF pk \notin HomeworkSubmissionViewSet_get_queryset(user)
    THEN [resp |-> custom_exception_handler(Http404), grades |-> grades]
    ELSE IF ~user_is_teacher(user)
    THEN [resp |-> custom_exception_handler(PermissionDeniedException), grades |-> grades]
    ELSE IF ~is_teacher(submission_course(submissions[pk]), user)
    THEN [resp |-> custom_exception_handler(PermissionDeniedException), grades |-> grades]
    ELSE IF ~has_grade(pk)
    THEN [resp |-> custom_exception_handler(BusinessLogicException("GRADE_NOT_FOUND")),
          grades |-> grades]
    ELSE IF ~Grade_is_valid(GradePayload[name], method = "PATCH")
    THEN [resp |-> APIResponse_validation_error, grades |-> grades]
    ELSE [resp |-> Response(200, NoCode, {<<"submission", pk>>}),
          grades |-> [grades EXCEPT ![grade_of(pk)] = Grade_update(@, GradePayload[name])]]

update_grade(user, pk, method, name) ==
    /\ grades' = update_grade_result(user, pk, method, name).grades
    /\ last' = Request("update_grade", user, pk, 0,
                       <<IF Grade_is_valid(GradePayload[name], method = "PATCH")
                         THEN "valid" ELSE "invalid">>,
                       update_grade_result(user, pk, method, name).resp)
    /\ UNCHANGED <<courses, lectures, homework, submissions, next_id, inflight, now>>

----------------------------------------------------------------------------
(* homework.admin: rows added through the admin site *)

Admin == "admin"
AdminContents == {"a"}

\* HomeworkSubmissionAdmin add view: the model form validates
\* unique_together, the INSERT enforces it.  Staff record a submission for
\* a student enrolled in the homework's course.
admin_add_submission(hw, student, content) ==
    /\ next_id.submission <= MaxSubmissions
    /\ hw \in DOMAIN homework
    /\ student \in homework_course(homework[hw]).students
    /\ LET row == [homework |-> hw, student |-> student, content |-> content,
                   submitted_at |-> now]
           r == db_insert(submissions, next_id.submission, row,
                          HomeworkSubmission_unique_together) IN
        /\ submissions' = r.table
        /\ next_id' = IF r.exc = "" THEN [next_id EXCEPT !.submission = @ + 1]
                      ELSE next_id
        /\ last' = Request("admin_add_submission", Admin, hw, 0, <<student, content>>,
                           IF r.exc = "" THEN Response(302, NoCode, {})
                           ELSE Response(200, "FORM_ERROR", {}))
    /\ UNCHANGED <<courses, lectures, homework, grades, inflight, now>>

\* HomeworkAdmin change view: staff set the is_active flag of a homework
admin_change_homework(hw, is_active) ==
    /\ hw \in DOMAIN homework
    /\ homework' = [homework EXCEPT ![hw].is_active = is_active]
    /\ last' = Request("admin_change_homework", Admin, hw, 0, <<is_active>>,
                       Response(302, NoCode, {}))
    /\ UNCHANGED <<courses, lectures, submissions, grades, next_id, inflight, now>>

\* GradeAdmin add view.  Staff record a grade given by a teacher of the
\* submission's course.
admin_add_grade(sub, name, graded_by) ==
    /\ next_id.grade <= MaxGrades
    /\ sub \in DOMAIN submissions
    /\ is_teacher(submission_course(submissions[sub]), graded_by)
    /\ Grade_is_valid(GradePayload[name], FALSE)
    /\ LET row == [submission |-> sub, grade |-> GradePayload[name].grade,
                   comments |-> "", graded_by |-> graded_by]
           r == db_insert(grades, next_id.grade, row, Grade_unique) IN
        /\ grades' = r.table
        /\ next_id' = IF r.exc = "" THEN [next_id EXCEPT !.grade = @ + 1] ELSE next_id
        /\ last' = Request("admin_add_grade", Admin, sub, 0, <<graded_by, name>>,
                           IF r.exc = "" THEN Response(302, NoCode, {})
                           ELSE Response(200, "FORM_ERROR", {}))
    /\ UNCHANGED <<courses, lectures, homework, submissions, inflight, now>>

----------------------------------------------------------------------------
(* submit_homework as two steps, for requests that run concurrently: the    *)
(* checks of one request can come before the save of another               *)

submit_homework_begin(user, pk, content) ==
    /\ next_id.submission <= MaxSubmissions
    /\ Cardinality(inflight) < MaxInflight
    /\ LET checked == submit_homework_check(user, pk) IN
        IF checked.exc # ""
        THEN /\ last' = Request("submit_homework", user, pk, 0, <<content>>, checked.resp)
             /\ UNCHANGED inflight
        ELSE /\ inflight' = inflight \cup {[user |-> user, pk |-> pk, content |-> content]}
             /\ UNCHANGED last
    /\ UNCHANGED <<tables, now>>

submit_homework_end(req) ==
    /\ req \in inflight
    /\ LET r == submit_homework_save(req.user, req.pk, req.content) IN
        /\ submissions' = r.submissions
        /\ next_id' = IF r.resp.status = 201
                      THEN [next_id EXCEPT !.submission = @ + 1] ELSE next_id
        /\ last' = Request("submit_homework", req.user, req.pk, 0, <<req.content>>, r.resp)
    /\ inflight' = inflight \ {req}
    /\ UNCHANGED <<courses, lectures, homework, grades, now>>

----------------------------------------------------------------------------
(* Read endpoints: the response carries the rows it serializes *)

\* A submission is serialized together with its grade
submission_data(subs) ==
    {<<"submission", s>> : s \in subs}
        \cup {<<"grade", g>> : g \in {g \in DOMAIN grades : grades[g].submission \in subs}}

ReadStep(op, user, pk, pk2, resp) ==
    /\ last' = Request(op, user, pk, pk2, NoArg, resp)
    /\ UNCHANGED <<tables, inflight, now>>

\* CourseViewSet.list_lectures
list_lectures_result(user, pk) ==
    IF pk \notin CourseViewSet_get_queryset(user)
    THEN custom_exception_handler(Http404)
    ELSE IF ~can_access(courses[pk], user)
    THEN APIResponse_error(NoCode, 403)
    ELSE Response(200, NoCode, {<<"lecture", l>> : l \in {l \in DOMAIN lectures : lectures[l].course = pk}})

list_lectures(user, pk) ==
    ReadStep("list_lectures", user, pk, 0, list_lectures_result(user, pk))

\* CourseViewSet.list_students.  The students are ordered by the ordering
\* query parameter, "user__first_name" when the request gives none; the
\* users table has no user relation, so that ordering raises FieldError.
DefaultOrdering == "user__first_name"
Orderings == {DefaultOrdering, "first_name"}
FieldError == [cls |-> "FieldError"]

list_students_result(user, pk, ordering) ==
    IF ~IsCourseTeacher_has_permission(user)
    THEN custom_exception_handler(PermissionDenied)
    ELSE IF pk \notin CourseViewSet_get_queryset(user)
    THEN custom_exception_handler(Http404)
    ELSE IF ~IsCourseTeacher_has_object_permission(user, courses[pk])
    THEN custom_exception_handler(PermissionDenied)
    ELSE IF ~is_teacher(courses[pk], user)
    THEN APIResponse_error(NoCode, 403)
    ELSE IF ordering = DefaultOrdering
    THEN custom_exception_handler(FieldError)
    ELSE Response(200, NoCode, {<<"student", s>> : s \in courses[pk].students})

list_students(user, pk, ordering) ==
    ReadStep("list_students", user, pk, 0, list_students_result(user, pk, ordering))

\* CourseViewSet.retrieve: get_object on get_queryset
CourseViewSet_retrieve_result(user, pk) ==
    IF pk \notin CourseViewSet_get_queryset(user)
    THEN custom_exception_handler(Http404)
    ELSE Response(200, NoCode, {<<"course", pk>>})
CourseViewSet_retrieve(user, pk) ==
    ReadStep("course_retrieve", user, pk, 0, CourseViewSet_retrieve_result(user, pk))

\* CourseViewSet.list: the rows of get_queryset
CourseViewSet_list_result(user) ==
    Response(200, NoCode, {<<"course", c>> : c \in CourseViewSet_get_queryset(user)})
CourseViewSet_list(user) ==
    ReadStep("course_list", user, 0, 0, CourseViewSet_list_result(user))

\* A lecture list that is not scoped to the caller's courses
LectureViewSet_get_queryset_unscoped(user) == DOMAIN lectures

LectureViewSet_get_queryset(user) ==
    IF role(user) = "teacher"
    THEN {l \in DOMAIN lectures :
            \/ courses[lectures[l].course].teacher = user
            \/ user \in courses[lectures[l].course].teachers}
    ELSE {l \in DOMAIN lectures : user \in courses[lectures[l].course].students}

LectureViewSet_list_result(user) ==
    Response(200, NoCode, {<<"lecture", l>> : l \in LectureViewSet_get_queryset(user)})

LectureViewSet_list(user) ==
    ReadStep("lecture_list", user, 0, 0, LectureViewSet_list_result(user))

LectureViewSet_retrieve_result(user, pk) ==
    IF pk \notin LectureViewSet_get_queryset(user)
    THEN custom_exception_handler(Http404)
    ELSE Response(200, NoCode, {<<"lecture", pk>>})

LectureViewSet_retrieve(user, pk) ==
    ReadStep("lecture_retrieve", user, pk, 0, LectureViewSet_retrieve_result(user, pk))

HomeworkViewSet_list_result(user) ==
    Response(200, NoCode, {<<"homework", h>> : h \in HomeworkViewSet_get_queryset(user)})

HomeworkViewSet_list(user) ==
    ReadStep("homework_list", user, 0, 0, HomeworkViewSet_list_result(user))

HomeworkViewSet_retrieve_result(user, pk) ==
    IF pk \notin HomeworkViewSet_get_queryset(user)
    THEN custom_exception_handler(Http404)
    ELSE Response(200, NoCode, {<<"homework", pk>>})

HomeworkViewSet_retrieve(user, pk) ==
    ReadStep("homework_retrieve", user, pk, 0, HomeworkViewSet_retrieve_result(user, pk))

\* api.v1.lectures.views.LectureHomeworkViewSet
LectureHomeworkViewSet_get_queryset(lecture_pk) ==
    {h \in DOMAIN homework : homework[h].lecture = lecture_pk}

LectureHomeworkViewSet_list_result(user, lecture_pk) ==
    IF lecture_pk \notin DOMAIN lectures
    THEN custom_exception_handler(ResourceNotFoundException)
    ELSE IF ~can_access(courses[lectures[lecture_pk].course], user)
    THEN custom_exception_handler(PermissionDeniedException)
    ELSE Response(200, NoCode,
                  {<<"homework", h>> : h \in LectureHomeworkViewSet_get_queryset(lecture_pk)})

LectureHomeworkViewSet_list(user, lecture_pk) ==
    ReadStep("lecture_homework_list", user, 0, lecture_pk,
             LectureHomeworkViewSet_list_result(user, lecture_pk))

LectureHomeworkViewSet_retrieve_result(user, lecture_pk, pk) ==
    IF lecture_pk \notin DOMAIN lectures
    THEN custom_exception_handler(ResourceNotFoundException)
    ELSE IF ~can_access(courses[lectures[lecture_pk].course], user)
    THEN custom_exception_handler(PermissionDeniedException)
    ELSE IF pk \notin LectureHomeworkViewSet_get_queryset(lecture_pk)
    THEN custom_exception_handler(Http404)
    ELSE Response(200, NoCode, {<<"homework", pk>>})

LectureHomeworkViewSet_retrieve(user, lecture_pk, pk) ==
    ReadStep("lecture_homework_retrieve", user, pk, lecture_pk,
             LectureHomeworkViewSet_retrieve_result(user, lecture_pk, pk))

\* get_submissions handing a student every submission of the homework
get_submissions_result_unfiltered(user, pk) ==
    IF pk \notin HomeworkViewSet_get_queryset(user)
    THEN custom_exception_handler(Http404)
    ELSE IF ~can_access(homework_course(homework[pk]), user)
    THEN custom_exception_handler(PermissionDeniedException)
    ELSE Response(200, NoCode,
                  submission_data({s \in DOMAIN submissions : submissions[s].homework = pk}))

\* HomeworkViewSet.get_submissions
get_submissions_result(user, pk) ==
    IF pk \notin HomeworkViewSet_get_queryset(user)
    THEN custom_exception_handler(Http404)
    ELSE IF user_is_teacher(user)
    THEN IF ~is_teacher(homework_course(homework[pk]), user)
         THEN custom_exception_handler(PermissionDeniedException)
         ELSE Response(200, NoCode,
                       submission_data({s \in DOMAIN submissions :
                                           submissions[s].homework = pk}))
    ELSE IF user \notin homework_course(homework[pk]).students
         THEN custom_exception_handler(PermissionDeniedException)
         ELSE Response(200, NoCode,
                       submission_data({s \in DOMAIN submissions :
                                           /\ submissions[s].homework = pk
                                           /\ submissions[s].student = user}))

get_submissions(user, pk) ==
    ReadStep("get_submissions", user, pk, 0, get_submissions_result(user, pk))

HomeworkSubmissionViewSet_list_result(user) ==
    Response(200, NoCode, submission_data(HomeworkSubmissionViewSet_get_queryset(user)))

HomeworkSubmissionViewSet_list(user) ==
    ReadStep("submission_list", user, 0, 0, HomeworkSubmissionViewSet_list_result(user))

HomeworkSubmissionViewSet_retrieve_result(user, pk) ==
    IF pk \notin HomeworkSubmissionViewSet_get_queryset(user)
    THEN custom_exception_handler(Http404)
    ELSE Response(200, NoCode, submission_data({pk}))

HomeworkSubmissionViewSet_retrieve(user, pk) ==
    ReadStep("submission_retrieve", user, pk, 0,
             HomeworkSubmissionViewSet_retrieve_result(user, pk))

----------------------------------------------------------------------------
(* Writes of lectures: api.v1.lectures.views.LectureViewSet and the         *)
(* course-nested lecture actions of CourseViewSet                           *)

IsLectureTeacher_has_permission(user) == role(user) = "teacher"

\* has_object_permission reads obj.course: an object without a course
\* attribute makes the attribute access raise
IsLectureTeacher_has_object_permission(user, obj) ==
    IF "course" \notin DOMAIN obj
    THEN [exc |-> "AttributeError", ok |-> FALSE]
    ELSE [exc |-> "", ok |-> (user = courses[obj.course].teacher
                                \/ user \in courses[obj.course].teachers)]

\* Deleting lectures with no cascade to what they contain
delete_lectures_no_cascade(ls) ==
    [lectures |-> without(lectures, ls), homework |-> homework,
     submissions |-> submissions, grades |-> grades]

\* Deleting lectures takes their homework, submissions and grades along
delete_lectures(ls) ==
    LET hs == lectures_homework(ls)
        ss == homework_submissions(hs)
        gs == submissions_grades(ss) IN
    [lectures |-> without(lectures, ls), homework |-> without(homework, hs),
     submissions |-> without(submissions, ss), grades |-> without(grades, gs)]

delete_homework(hs) ==
    LET ss == homework_submissions(hs)
        gs == submissions_grades(ss) IN
    [lectures |-> lectures, homework |-> without(homework, hs),
     submissions |-> without(submissions, ss), grades |-> without(grades, gs)]

\* The tables a lecture or homework request can write, as they are
content_tables == [lectures |-> lectures, homework |-> homework,
            submissions |-> submissions, grades |-> grades]

ContentStep(op, user, pk, pk2, arg, r) ==
    /\ lectures' = r.content.lectures
    /\ homework' = r.content.homework
    /\ submissions' = r.content.submissions
    /\ grades' = r.content.grades
    /\ last' = Request(op, user, pk, pk2, arg, r.resp)
    /\ UNCHANGED <<courses, next_id, inflight, now>>

\* LectureViewSet.create: LectureCreateSerializer has no course field and
\* perform_create saves without one, so the INSERT breaks NOT NULL
LectureViewSet_create_result(user, valid) ==
    IF ~IsLectureTeacher_has_permission(user)
    THEN [resp |-> custom_exception_handler(PermissionDenied), content |-> content_tables]
    ELSE IF ~valid
    THEN [resp |-> custom_exception_handler(ValidationError), content |-> content_tables]
    ELSE [resp |-> custom_exception_handler(IntegrityError), content |-> content_tables]

LectureViewSet_create(user, valid) ==
    ContentStep("lecture_create", user, 0, 0, <<IF valid THEN "valid" ELSE "invalid">>,
                LectureViewSet_create_result(user, valid))

\* LectureViewSet.update and partial_update
LectureViewSet_update_result(user, pk, topic) ==
    IF ~IsLectureTeacher_has_permission(user)
    THEN [resp |-> custom_exception_handler(PermissionDenied), content |-> content_tables]
    ELSE IF pk \notin LectureViewSet_get_queryset(user)
    THEN [resp |-> custom_exception_handler(Http404), content |-> content_tables]
    ELSE IF ~IsLectureTeacher_has_object_permission(user, lectures[pk]).ok
    THEN [resp |-> custom_exception_handler(PermissionDenied), content |-> content_tables]
    ELSE [resp |-> Response(200, NoCode, {<<"lecture", pk>>}),
          content |-> [content_tables EXCEPT !.lectures[pk].topic = topic]]

LectureViewSet_update(user, pk, partial, topic) ==
    ContentStep(IF partial THEN "lecture_partial_update" ELSE "lecture_update",
                user, pk, 0, <<topic>>, LectureViewSet_update_result(user, pk, topic))

\* LectureViewSet.destroy, with the check of perform_destroy
LectureViewSet_destroy_result(user, pk) ==
    IF ~IsLectureTeacher_has_permission(user)
    THEN [resp |-> custom_exception_handler(PermissionDenied), content |-> content_tables]
    ELSE IF pk \notin LectureViewSet_get_queryset(user)
    THEN [resp |-> custom_exception_handler(Http404), content |-> content_tables]
    ELSE IF ~IsLectureTeacher_has_object_permission(user, lectures[pk]).ok
    THEN [resp |-> custom_exception_handler(PermissionDenied), content |-> content_tables]
    ELSE IF ~is_teacher(courses[lectures[pk].course], user)
    THEN [resp |-> custom_exception_handler(PermissionDenied), content |-> content_tables]
    ELSE [resp |-> Response(204, NoCode, {}), content |-> delete_lectures({pk})]

LectureViewSet_destroy(user, pk) ==
    ContentStep("lecture_destroy", user, pk, 0, NoArg, LectureViewSet_destroy_result(user, pk))

\* update_lecture without its Course.is_teacher check
update_lecture_result_no_teacher_check(user, pk, lecture_id, topic) ==
    IF pk \notin CourseViewSet_get_queryset(user)
    THEN [resp |-> custom_exception_handler(Http404), content |-> content_tables]
    ELSE IF lecture_id \notin course_lectures(pk)
    THEN [resp |-> APIResponse_error(NoCode, 404), content |-> content_tables]
    ELSE [resp |-> Response(200, NoCode, {<<"lecture", lecture_id>>}),
          content |-> [content_tables EXCEPT !.lectures[lecture_id].topic = topic]]

\* CourseViewSet.update_lecture: IsAuthenticated, the course from
\* get_queryset, the lecture looked up under that course
update_lecture_result(user, pk, lecture_id, topic) ==
    IF pk \notin CourseViewSet_get_queryset(user)
    THEN [resp |-> custom_exception_handler(Http404), content |-> content_tables]
    ELSE IF lecture_id \notin course_lectures(pk)
    THEN [resp |-> APIResponse_error(NoCode, 404), content |-> content_tables]
    ELSE IF ~is_teacher(courses[pk], user)
    THEN [resp |-> APIResponse_error(NoCode, 403), content |-> content_tables]
    ELSE [resp |-> Response(200, NoCode, {<<"lecture", lecture_id>>}),
          content |-> [content_tables EXCEPT !.lectures[lecture_id].topic = topic]]

update_lecture(user, pk, lecture_id, topic) ==
    ContentStep("update_lecture", user, pk, lecture_id, <<topic>>,
                update_lecture_result(user, pk, lecture_id, topic))

\* CourseViewSet.delete_lecture
delete_lecture_result(user, pk, lecture_id) ==
    IF pk \notin CourseViewSet_get_queryset(user)
    THEN [resp |-> custom_exception_handler(Http404), content |-> content_tables]
    ELSE IF lecture_id \notin course_lectures(pk)
    THEN [resp |-> APIResponse_error(NoCode, 404), content |-> content_tables]
    ELSE IF ~is_teacher(courses[pk], user)
    THEN [resp |-> APIResponse_error(NoCode, 403), content |-> content_tables]
    ELSE [resp |-> Response(204, NoCode, {}), content |-> delete_lectures({lecture_id})]

delete_lecture(user, pk, lecture_id) ==
    ContentStep("delete_lecture", user, pk, lecture_id, NoArg,
                delete_lecture_result(user, pk, lecture_id))

----------------------------------------------------------------------------

(* Writes of homework: api.v1.homework.views.HomeworkViewSet and            *)
(* api.v1.lectures.views.LectureHomeworkViewSet                             *)

\* HomeworkUpdateSerializer.validate
HomeworkUpdateSerializer_is_valid(user, instance) ==
    LET course == homework_course(instance) IN
    user = course.teacher \/ user \in course.teachers

\* HomeworkViewSet.update and partial_update
HomeworkViewSet_update_result(user, pk, title, due_date) ==
    IF ~IsHomeworkTeacher_has_permission(user)
    THEN [resp |-> custom_exception_handler(PermissionDenied), content |-> content_tables]
    ELSE IF pk \notin HomeworkViewSet_get_queryset(user)
    THEN [resp |-> custom_exception_handler(Http404), content |-> content_tables]
    ELSE LET perm == IsHomeworkTeacher_has_object_permission(user, homework[pk]) IN
         IF perm.exc # ""
         THEN [resp |-> custom_exception_handler([cls |-> perm.exc]),
               content |-> content_tables]
         ELSE IF ~perm.ok
         THEN [resp |-> custom_exception_handler(PermissionDenied),
               content |-> content_tables]
         ELSE IF ~HomeworkUpdateSerializer_is_valid(user, homework[pk])
         THEN [resp |-> APIResponse_validation_error, content |-> content_tables]
         ELSE [resp |-> Response(200, NoCode, {<<"homework", pk>>}),
               content |-> [content_tables EXCEPT !.homework[pk].title = title,
                                                  !.homework[pk].due_date = due_date]]

HomeworkViewSet_update(user, pk, partial, title, due_date) ==
    ContentStep(IF partial THEN "homework_partial_update" ELSE "homework_update",
                user, pk, 0, <<title, due_date>>,
                HomeworkViewSet_update_result(user, pk, title, due_date))

\* HomeworkViewSet.destroy
HomeworkViewSet_destroy_result(user, pk) ==
    IF ~IsHomeworkTeacher_has_permission(user)
    THEN [resp |-> custom_exception_handler(PermissionDenied), content |-> content_tables]
    ELSE IF pk \notin HomeworkViewSet_get_queryset(user)
    THEN [resp |-> custom_exception_handler(Http404), content |-> content_tables]
    ELSE LET perm == IsHomeworkTeacher_has_object_permission(user, homework[pk]) IN
         IF perm.exc # ""
         THEN [resp |-> custom_exception_handler([cls |-> perm.exc]),
               content |-> content_tables]
         ELSE IF ~perm.ok
         THEN [resp |-> custom_exception_handler(PermissionDenied),
               content |-> content_tables]
         ELSE IF ~is_teacher(homework_course(homework[pk]), user)
         THEN [resp |-> custom_exception_handler(PermissionDeniedException),
               content |-> content_tables]
         ELSE [resp |-> Response(204, NoCode, {}), content |-> delete_homework({pk})]

HomeworkViewSet_destroy(user, pk) ==
    ContentStep("homework_destroy", user, pk, 0, NoArg,
                HomeworkViewSet_destroy_result(user, pk))

\* Fields HomeworkCreateSerializer requires, and the fields of the body
\* LectureHomeworkViewSet.create hands it: the request's without lecture
HomeworkCreateSerializer_required == {"lecture", "title", "description", "due_date"}
LectureHomeworkViewSet_create_data ==
    {"lecture", "title", "description", "due_date"} \ {"lecture"}

\* LectureHomeworkViewSet.create
LectureHomeworkViewSet_create_result(user, lecture_pk) ==
    IF ~IsLectureTeacher_has_permission(user)
    THEN [resp |-> custom_exception_handler(PermissionDenied), content |-> content_tables]
    ELSE IF lecture_pk \notin DOMAIN lectures
    THEN [resp |-> custom_exception_handler(ResourceNotFoundException),
          content |-> content_tables]
    ELSE IF ~is_teacher(courses[lectures[lecture_pk].course], user)
    THEN [resp |-> custom_exception_handler(PermissionDeniedException),
          content |-> content_tables]
    ELSE IF ~(HomeworkCreateSerializer_required \subseteq LectureHomeworkViewSet_create_data)
    THEN [resp |-> APIResponse_validation_error, content |-> content_tables]
    ELSE [resp |-> Response(201, NoCode, {<<"homework", next_id.homework>>}),
          content |-> [content_tables EXCEPT
                          !.homework = (next_id.homework :>
                                          [lecture |-> lecture_pk, title |-> NewTitle,
                                           due_date |-> NewDueDate, is_active |-> TRUE]) @@ @]]

LectureHomeworkViewSet_create(user, lecture_pk) ==
    /\ next_id.homework <= MaxHomework
    /\ LET r == LectureHomeworkViewSet_create_result(user, lecture_pk) IN
        /\ lectures' = r.content.lectures
        /\ homework' = r.content.homework
        /\ submissions' = r.content.submissions
        /\ grades' = r.content.grades
        /\ next_id' = IF r.resp.status = 201
                      THEN [next_id EXCEPT !.homework = @ + 1] ELSE next_id
        /\ last' = Request("lecture_homework_create", user, 0, lecture_pk, NoArg, r.resp)
    /\ UNCHANGED <<courses, inflight, now>>

\* What LectureHomeworkViewSet.update and destroy do before they write:
\* the lecture lookup, Course.is_teacher, then get_object, whose object
\* check hands the homework to IsLectureTeacher.  "" when they go on.
LectureHomeworkViewSet_write_check(user, lecture_pk, pk) ==
    IF ~IsLectureTeacher_has_permission(user)
    THEN [exc |-> "raised", resp |-> custom_exception_handler(PermissionDenied)]
    ELSE IF lecture_pk \notin DOMAIN lectures
    THEN [exc |-> "raised", resp |-> custom_exception_handler(ResourceNotFoundException)]
    ELSE IF ~is_teacher(courses[lectures[lecture_pk].course], user)
    THEN [exc |-> "raised", resp |-> custom_exception_handler(PermissionDeniedException)]
    ELSE IF pk \notin LectureHomeworkViewSet_get_queryset(lecture_pk)
    THEN [exc |-> "raised", resp |-> custom_exception_handler(Http404)]
    ELSE LET perm == IsLectureTeacher_has_object_permission(user, homework[pk]) IN
         IF perm.exc # ""
         THEN [exc |-> "raised", resp |-> custom_exception_handler([cls |-> perm.exc])]
         ELSE IF ~perm.ok
         THEN [exc |-> "raised", resp |-> custom_exception_handler(PermissionDenied)]
         ELSE [exc |-> "", resp |-> Response(0, NoCode, {})]

LectureHomeworkViewSet_update_result(user, lecture_pk, pk, title) ==
    LET checked == LectureHomeworkViewSet_write_check(user, lecture_pk, pk) IN
    IF checked.exc # ""
    THEN [resp |-> checked.resp, content |-> content_tables]
    ELSE IF ~HomeworkUpdateSerializer_is_valid(user, homework[pk])
    THEN [resp |-> APIResponse_validation_error, content |-> content_tables]
    ELSE [resp |-> Response(200, NoCode, {<<"homework", pk>>}),
          content |-> [content_tables EXCEPT !.homework[pk].title = title]]

LectureHomeworkViewSet_update(user, lecture_pk, pk, partial, title) ==
    ContentStep(IF partial THEN "lecture_homework_partial_update"
                ELSE "lecture_homework_update",
                user, pk, lecture_pk, <<title>>,
                LectureHomeworkViewSet_update_result(user, lecture_pk, pk, title))

LectureHomeworkViewSet_destroy_result(user, lecture_pk, pk) ==
    LET checked == LectureHomeworkViewSet_write_check(user, lecture_pk, pk) IN
    IF checked.exc # ""
    THEN [resp |-> checked.resp, content |-> content_tables]
    ELSE [resp |-> Response(204, NoCode, {}), content |-> delete_homework({pk})]

LectureHomeworkViewSet_destroy(user, lecture_pk, pk) ==
    ContentStep("lecture_homework_destroy", user, pk, lecture_pk, NoArg,
                LectureHomeworkViewSet_destroy_result(user, lecture_pk, pk))

----------------------------------------------------------------------------

(* Specifications *)

Init ==
    /\ courses = <<>>
    /\ lectures = <<>>
    /\ homework = <<>>
    /\ submissions = <<>>
    /\ grades = <<>>
    /\ next_id = [course |-> 1, lecture |-> 1, homework |-> 1,
                  submission |-> 1, grade |-> 1]
    /\ inflight = {}
    /\ now = FirstNow
    /\ last = Request("none", NoUser, 0, 0, NoArg, Response(0, NoCode, {}))

\* The response just given reports success
Succeeds == last'.status \in {200, 201, 204, 302}

\* Requests on courses and their rosters, failing ones included
Next ==
    \/ \E user \in Users, is_active \in BOOLEAN : CourseViewSet_create(user, is_active)
    \/ \E user \in Users, pk \in CoursePks, user_id \in UserIds : add_student(user, pk, user_id)
    \/ \E user \in Users, pk \in CoursePks, user_id \in UserIds : remove_student(user, pk, user_id)
    \/ \E user \in Users, pk \in CoursePks, user_id \in UserIds : add_teacher(user, pk, user_id)
    \/ \E user \in Users, pk \in CoursePks, user_id \in UserIds : remove_teacher(user, pk, user_id)
    \/ \E user \in Users, pk \in CoursePks : enroll_in_course(user, pk)
    \/ \E user \in Users, pk \in CoursePks : unenroll_from_course(user, pk)
    \/ \E user \in Users, pk \in CoursePks, partial \in BOOLEAN, name \in CourseBodies :
            CourseViewSet_update(user, pk, partial, name)
    \/ \E user \in Users, pk \in CoursePks : CourseViewSet_destroy(user, pk)
    \/ \E user \in Users, pk \in CoursePks, ordering \in Orderings :
            list_students(user, pk, ordering)

Spec == Init /\ [][Next]_vars

\* The requests that build up the tables.  A request that fails changes no
\* table, so only the successful ones are taken here: the tables reached
\* are the same.  Courses are created active and by one teacher, the other
\* teacher being a co-teacher or a stranger to the course; submissions are
\* recorded for the students in `submitters`.
SetupOwners == {"T1"}

Setup(submitters) ==
    \/ \E user \in SetupOwners : CourseViewSet_create(user, TRUE) /\ Succeeds
    \/ \E user \in Users, pk \in CoursePks, user_id \in UserIds :
            add_student(user, pk, user_id) /\ Succeeds
    \/ \E user \in Users, pk \in CoursePks, user_id \in UserIds :
            add_teacher(user, pk, user_id) /\ Succeeds
    \/ \E user \in Users, pk \in CoursePks, user_id \in UserIds :
            remove_teacher(user, pk, user_id) /\ Succeeds
    \/ \E user \in Users, pk \in CoursePks :
            unenroll_from_course(user, pk) /\ Succeeds
    \/ \E user \in Users, pk \in CoursePks :
            create_lecture(user, pk, TRUE) /\ Succeeds
    \/ \E user \in Users, lecture \in LecturePks :
            HomeworkViewSet_create(user, lecture) /\ Succeeds
    \/ \E hw \in HomeworkPks, student \in submitters, content \in AdminContents :
            admin_add_submission(hw, student, content) /\ Succeeds

SetupGrades(submitters) ==
    \/ Setup(submitters)
    \/ \E sub \in SubmissionPks, graded_by \in Teachers :
            admin_add_grade(sub, "low", graded_by) /\ Succeeds

\* Submitting, one request at a time
NextSubmit ==
    \/ Setup(Students)
    \/ \E user \in Users, pk \in HomeworkPks, content \in Contents :
            submit_homework(user, pk, content)

SpecSubmit == Init /\ [][NextSubmit]_vars

\* Grading, one request at a time, of the submission of one student
NextGrade ==
    \/ SetupGrades({"S1"})
    \/ \E user \in Users, pk \in SubmissionPks, name \in GradePayloads :
            grade_submission(user, pk, name)
    \/ \E user \in Users, pk \in SubmissionPks, req \in UpdateRequests :
            update_grade(user, pk, req[1], req[2])

SpecGrade == Init /\ [][NextGrade]_vars

\* Submitting and grading with the submit requests interleaved
NextConc ==
    \/ SetupGrades({"S1"})
    \/ \E user \in Users, pk \in HomeworkPks, content \in Contents \ {""} :
            submit_homework_begin(user, pk, content)
    \/ \E req \in inflight : submit_homework_end(req)
    \/ \E user \in Users, pk \in SubmissionPks :
            grade_submission(user, pk, "low")

SpecConc == Init /\ [][NextConc]_vars

\* The clock moves on between requests
Tick ==
    /\ now < MaxNow
    /\ now' = now + 1
    /\ last' = Request("tick", NoUser, 0, 0, NoArg, Response(0, NoCode, {}))
    /\ UNCHANGED <<tables, inflight>>

\* Homework updates, due date included, while the clock moves on and
\* submissions are recorded
NextLate ==
    \/ Setup({"S1"})
    \/ Tick
    \/ \E user \in Users, pk \in HomeworkPks, partial \in BOOLEAN, due_date \in DueDates :
            HomeworkViewSet_update(user, pk, partial, "title2", due_date)

SpecLate == Init /\ [][NextLate]_vars

\* Deleting courses, lectures and homework that hold submissions and grades
NextCascade ==
    \/ SetupGrades({"S1"})
    \/ \E user \in Users, pk \in CoursePks : CourseViewSet_destroy(user, pk)
    \/ \E user \in Users, pk \in CoursePks, lecture_id \in LecturePks :
            delete_lecture(user, pk, lecture_id)
    \/ \E user \in Users, pk \in LecturePks : LectureViewSet_destroy(user, pk)
    \/ \E user \in Users, pk \in HomeworkPks : HomeworkViewSet_destroy(user, pk)

SpecCascade == Init /\ [][NextCascade]_vars

\* Requests of every kind of handler, refused ones included, on tables that
\* hold submissions and grades
NextRefused ==
    \/ SetupGrades({"S1"})
    \/ \E user \in Users, pk \in CoursePks : enroll_in_course(user, pk)
    \/ \E user \in Users, pk \in CoursePks, user_id \in {"S1", "T2"} :
            remove_student(user, pk, user_id)
    \/ \E user \in Users, pk \in HomeworkPks : HomeworkViewSet_destroy(user, pk)
    \/ \E user \in Users, lecture_pk \in LecturePks :
            LectureHomeworkViewSet_create(user, lecture_pk)
    \/ \E user \in Users, pk \in HomeworkPks, content \in {"a"} :
            submit_homework(user, pk, content)
    \/ \E user \in Users, pk \in SubmissionPks, name \in {"over"} :
            grade_submission(user, pk, name)
    \/ \E user \in Users, pk \in SubmissionPks, name \in {"high", "over"} :
            update_grade(user, pk, "PUT", name)

SpecRefused == Init /\ [][NextRefused]_vars

\* Submitting while the clock moves on and staff open and close the homework
NextCanSubmit ==
    \/ Setup({"S2"})
    \/ Tick
    \/ \E hw \in HomeworkPks, is_active \in BOOLEAN : admin_change_homework(hw, is_active)
    \/ \E user \in Users, pk \in HomeworkPks, content \in Contents :
            submit_homework(user, pk, content)

SpecCanSubmit == Init /\ [][NextCanSubmit]_vars

\* Enrolling and unenrolling, failing requests included, on tables that hold
\* submissions and grades
NextEnroll ==
    \/ SetupGrades(Students)
    \/ \E user \in Users, pk \in CoursePks : enroll_in_course(user, pk)
    \/ \E user \in Users, pk \in CoursePks : unenroll_from_course(user, pk)

SpecEnroll == Init /\ [][NextEnroll]_vars

\* The read endpoints
NextRead ==
    \/ SetupGrades(Students)
    \/ \E user \in Users, pk \in CoursePks : list_lectures(user, pk)
    \/ \E user \in Users : CourseViewSet_list(user)
    \/ \E user \in Users, pk \in CoursePks : CourseViewSet_retrieve(user, pk)
    \/ \E user \in Users : LectureViewSet_list(user)
    \/ \E user \in Users, pk \in LecturePks : LectureViewSet_retrieve(user, pk)
    \/ \E user \in Users : HomeworkViewSet_list(user)
    \/ \E user \in Users, pk \in HomeworkPks : HomeworkViewSet_retrieve(user, pk)
    \/ \E user \in Users, lecture_pk \in LecturePks :
            LectureHomeworkViewSet_list(user, lecture_pk)
    \/ \E user \in Users, lecture_pk \in LecturePks, pk \in HomeworkPks :
            LectureHomeworkViewSet_retrieve(user, lecture_pk, pk)
    \/ \E user \in Users, pk \in HomeworkPks : get_submissions(user, pk)
    \/ \E user \in Users : HomeworkSubmissionViewSet_list(user)
    \/ \E user \in Users, pk \in SubmissionPks :
            HomeworkSubmissionViewSet_retrieve(user, pk)

SpecRead == Init /\ [][NextRead]_vars

----------------------------------------------------------------------------
(* Claims *)

\* C1: in every reachable state, for every course and every user,
\* Course.can_access is true exactly when the user is the course's primary
\* teacher, one of its co-teachers or one of its students.
C1_CanAccessIff ==
    \A c \in DOMAIN courses, u \in Users :
        can_access(courses[c], u)
            <=> (u = courses[c].teacher \/ u \in courses[c].teachers
                    \/ u \in courses[c].students)

\* A course with a co-teacher other than its owner, an enrolled student,
\* and users on both sides of can_access
C1_Witness ==
    \E c \in DOMAIN courses :
        /\ courses[c].teachers \ {courses[c].teacher} # {}
        /\ courses[c].students # {}
        /\ \E u \in Students : ~can_access(courses[c], u)
        /\ \A u \in {courses[c].teacher} \cup courses[c].teachers \cup courses[c].students :
                can_access(courses[c], u)

\* C2: an enroll_in_course request by a student on an active course the
\* student is not enrolled in succeeds and puts the student in the student
\* set (the first call, and the call after an unenroll); on a course the
\* student is enrolled in it fails with 400.
C2_EnrollUnenrollEnroll ==
    [][\A s \in Students, c \in DOMAIN courses :
          (last'.op = "enroll_in_course" /\ last'.user = s /\ last'.pk = c)
              => IF s \in courses[c].students
                 THEN last'.status = 400 /\ courses' = courses
                 ELSE courses[c].is_active
                        => last'.status = 200 /\ s \in courses'[c].students]_vars

\* C9: a remove_teacher request that targets the course's primary teacher
\* fails for every caller and leaves the course as it was, also when the
\* owner is in the co-teacher set; the owner removing a co-teacher who is
\* not the owner succeeds and removes exactly that user.
C9_RemoveTeacher ==
    [][\A c \in DOMAIN courses :
          (last'.op = "remove_teacher" /\ last'.pk = c)
              => /\ last'.arg = <<courses[c].teacher>>
                      => last'.status >= 400 /\ courses' = courses
                 /\ (/\ last'.user = courses[c].teacher
                     /\ last'.arg[1] \in courses[c].teachers \ {courses[c].teacher})
                      => /\ last'.status = 200
                         /\ courses' = [courses EXCEPT
                                           ![c].teachers = @ \ {last'.arg[1]}]]_vars

\* The owner sits in the co-teacher set and a request to remove the owner
\* was just refused
C9_Witness ==
    /\ last.op = "remove_teacher"
    /\ last.pk \in DOMAIN courses
    /\ last.arg = <<courses[last.pk].teacher>>
    /\ courses[last.pk].teacher \in courses[last.pk].teachers
    /\ last.user \in {courses[last.pk].teacher} \cup courses[last.pk].teachers
    /\ last.status = 400

\* The submissions of student s for homework h
submissions_of(table, h, s) ==
    {x \in DOMAIN table : table[x].homework = h /\ table[x].student = s}

\* C3: a submit_homework request with valid content by a student enrolled
\* in the homework's course who has no submission for it returns 201, and
\* afterwards exactly one submission exists for that homework and student.
C3_FirstSubmitCreated ==
    [][\A s \in Students, h \in DOMAIN homework :
          (/\ last'.op = "submit_homework" /\ last'.user = s /\ last'.pk = h
           /\ s \in homework_course(homework[h]).students
           /\ submissions_of(submissions, h, s) = {}
           /\ last'.arg # <<"">>)
              => /\ last'.status = 201
                 /\ Cardinality(submissions_of(submissions', h, s)) = 1]_vars

\* C4 as stated: a submit_homework request by a student who already has a
\* submission for the homework fails with 400 DUPLICATE_SUBMISSION and
\* leaves the submissions as they were.
C4_DuplicateAlways400 ==
    [][\A s \in Students, h \in DOMAIN homework :
          (/\ last'.op = "submit_homework" /\ last'.user = s /\ last'.pk = h
           /\ submissions_of(submissions, h, s) # {})
              => /\ last'.status = 400
                 /\ last'.code = "DUPLICATE_SUBMISSION"
                 /\ submissions' = submissions]_vars

\* C4: a submit_homework request by a student who already has a submission
\* for the homework creates no row and leaves the existing submission as it
\* was; it fails with 400 DUPLICATE_SUBMISSION when the student is enrolled
\* in the homework's course, and with 404 when the student is not.
C4_DuplicateRejected ==
    [][\A s \in Students, h \in DOMAIN homework :
          (/\ last'.op = "submit_homework" /\ last'.user = s /\ last'.pk = h
           /\ submissions_of(submissions, h, s) # {})
              => /\ submissions' = submissions
                 /\ next_id' = next_id
                 /\ IF s \in homework_course(homework[h]).students
                    THEN last'.status = 400 /\ last'.code = "DUPLICATE_SUBMISSION"
                    ELSE last'.status = 404]_vars

\* A second submission with other content was just refused as a duplicate,
\* and the stored one still has its content
C4_Witness ==
    /\ last.op = "submit_homework"
    /\ last.status = 400
    /\ last.code = "DUPLICATE_SUBMISSION"
    /\ \E x \in submissions_of(submissions, last.pk, last.user) :
            <<submissions[x].content>> # last.arg

\* C5: in every reachable state, whatever the interleaving of the submit
\* and grade requests, there is at most one submission per homework and
\* student and at most one grade per submission.
C5_AtMostOne ==
    /\ \A a, b \in DOMAIN submissions :
            (/\ submissions[a].homework = submissions[b].homework
             /\ submissions[a].student = submissions[b].student) => a = b
    /\ \A a, b \in DOMAIN grades :
            grades[a].submission = grades[b].submission => a = b

\* Two requests of one student for one homework are both past the
\* existence check, and a submission for that pair has been stored since
C5_Witness ==
    \E r1, r2 \in inflight :
        /\ r1 # r2
        /\ r1.user = r2.user
        /\ r1.pk = r2.pk
        /\ submissions_of(submissions, r1.pk, r1.user) # {}

\* The grades of submission x
grades_of(table, x) == {g \in DOMAIN table : table[g].submission = x}

\* C6: a grade_submission request with a valid grade by a teacher of the
\* submission's course, on a submission without a grade, returns 201 and
\* afterwards the submission has exactly one grade, graded by that teacher.
C6_FirstGradeCreated ==
    [][\A t \in Teachers, x \in DOMAIN submissions :
          (/\ last'.op = "grade_submission" /\ last'.user = t /\ last'.pk = x
           /\ is_teacher(submission_course(submissions[x]), t)
           /\ ~has_grade(x)
           /\ last'.arg = <<"valid">>)
              => /\ last'.status = 201
                 /\ Cardinality(grades_of(grades', x)) = 1
                 /\ \A g \in grades_of(grades', x) : grades'[g].graded_by = t]_vars

\* C7: a grade_submission request by a teacher of the submission's course,
\* on a submission that has a grade, fails with 400 GRADE_ALREADY_EXISTS and
\* leaves the grade as it was.
C7_SecondGradeRefused ==
    [][\A t \in Teachers, x \in DOMAIN submissions :
          (/\ last'.op = "grade_submission" /\ last'.user = t /\ last'.pk = x
           /\ is_teacher(submission_course(submissions[x]), t)
           /\ has_grade(x))
              => /\ last'.status = 400
                 /\ last'.code = "GRADE_ALREADY_EXISTS"
                 /\ grades' = grades]_vars

\* update_grade changed at most the one grade of submission x, in place
updated_in_place(x) ==
    /\ DOMAIN grades' = DOMAIN grades
    /\ \A g \in DOMAIN grades :
            /\ g # grade_of(x) => grades'[g] = grades[g]
            /\ grades'[g].submission = grades[g].submission
            /\ grades'[g].graded_by = grades[g].graded_by

\* C8 as stated: update_grade never changes the number of grades; by a
\* teacher of the submission's course it fails with GRADE_NOT_FOUND on a
\* submission without a grade, and on a submission with a grade it succeeds
\* with 200 and modifies that grade in place.
C8_UpdateAlways200 ==
    [][last'.op = "update_grade"
          => /\ Cardinality(DOMAIN grades') = Cardinality(DOMAIN grades)
             /\ \A t \in Teachers, x \in DOMAIN submissions :
                  (/\ last'.user = t /\ last'.pk = x
                   /\ is_teacher(submission_course(submissions[x]), t))
                      => IF ~has_grade(x)
                         THEN last'.code = "GRADE_NOT_FOUND" /\ grades' = grades
                         ELSE last'.status = 200 /\ updated_in_place(x)]_vars

\* C8: update_grade never changes the number of grades; by a teacher of
\* the submission's course it fails with GRADE_NOT_FOUND on a submission
\* without a grade; on a submission with a grade it succeeds with 200 and
\* modifies that grade in place when the body is valid, and fails with 400
\* VALIDATION_ERROR and changes nothing when the body is not.
C8_UpdateKeepsCount ==
    [][last'.op = "update_grade"
          => /\ Cardinality(DOMAIN grades') = Cardinality(DOMAIN grades)
             /\ \A t \in Teachers, x \in DOMAIN submissions :
                  (/\ last'.user = t /\ last'.pk = x
                   /\ is_teacher(submission_course(submissions[x]), t))
                      => IF ~has_grade(x)
                         THEN /\ last'.status = 400
                              /\ last'.code = "GRADE_NOT_FOUND"
                              /\ grades' = grades
                         ELSE IF last'.arg = <<"valid">>
                         THEN last'.status = 200 /\ updated_in_place(x)
                         ELSE /\ last'.status = 400
                              /\ last'.code = "VALIDATION_ERROR"
                              /\ grades' = grades]_vars

\* An update_grade request just succeeded and the one grade of the
\* submission carries the new value
C8_Witness ==
    /\ last.op = "update_grade"
    /\ last.status = 200
    /\ last.pk \in DOMAIN submissions
    /\ Cardinality(grades_of(grades, last.pk)) = 1
    /\ \A g \in grades_of(grades, last.pk) : grades[g].grade = MaxGrade

\* The read endpoints, and the course a row of a response belongs to
ReadOps ==
    {"list_lectures", "lecture_list", "lecture_retrieve", "homework_list",
     "homework_retrieve", "lecture_homework_list", "lecture_homework_retrieve",
     "get_submissions", "submission_list", "submission_retrieve"}

item_course(item) ==
    CASE item[1] = "lecture" -> lectures[item[2]].course
      [] item[1] = "homework" -> lectures[homework[item[2]].lecture].course
      [] item[1] = "submission" ->
            lectures[homework[submissions[item[2]].homework].lecture].course
      [] item[1] = "grade" ->
            lectures[homework[submissions[grades[item[2]].submission].homework].lecture].course

\* The courses a request addresses through the object it names
target_courses(req) ==
    CASE req.op = "list_lectures" -> {req.pk} \cap DOMAIN courses
      [] req.op = "lecture_retrieve" ->
            {lectures[l].course : l \in {req.pk} \cap DOMAIN lectures}
      [] req.op \in {"homework_retrieve", "get_submissions"} ->
            {lectures[homework[h].lecture].course : h \in {req.pk} \cap DOMAIN homework}
      [] req.op \in {"lecture_homework_list", "lecture_homework_retrieve"} ->
            {lectures[l].course : l \in {req.pk2} \cap DOMAIN lectures}
      [] req.op = "submission_retrieve" ->
            {item_course(<<"submission", x>>) : x \in {req.pk} \cap DOMAIN submissions}
      [] OTHER -> {}

\* C10: a read request by a student returns no lecture, homework,
\* submission or grade of a course whose student set the student is not
\* in, and a read request that names an object of such a course is answered
\* with 403 or 404.
C10_NonEnrolledReadsNothing ==
    (last.op \in ReadOps /\ last.user \in Students)
        => /\ \A item \in last.data : last.user \in courses[item_course(item)].students
           /\ \A c \in target_courses(last) :
                last.user \notin courses[c].students => last.status \in {403, 404}

\* The end-to-end sequence: setting up, enrolling, submitting, grading
NextScenario ==
    \/ SetupGrades({"S1"})
    \/ \E user \in Students, pk \in CoursePks : enroll_in_course(user, pk)
    \/ \E user \in Students, pk \in HomeworkPks : submit_homework(user, pk, "a")
    \/ \E user \in Teachers, pk \in SubmissionPks : grade_submission(user, pk, "low")
    \/ \E user \in Teachers, pk \in SubmissionPks : update_grade(user, pk, "PUT", "high")

SpecScenario == Init /\ [][NextScenario]_vars

\* C11: each step of the end-to-end sequence has the stated outcome in the
\* state the sequence reaches it in: a co-teacher creates a lecture (201);
\* a student not yet enrolled enrolls (200); the enrolled student submits
\* (201) and submits again (400 DUPLICATE_SUBMISSION); the owner grades the
\* submission (201) and grades it again (400 GRADE_ALREADY_EXISTS); the
\* owner updates the grade (200).
C11_EndToEnd ==
    [][/\ \A c \in DOMAIN courses :
            /\ (/\ last'.op = "create_lecture" /\ last'.pk = c
                /\ last'.user \in courses[c].teachers)
                    => last'.status = 201
            /\ (/\ last'.op = "enroll_in_course" /\ last'.pk = c
                /\ last'.user \in Students \ courses[c].students
                /\ courses[c].is_active)
                    => last'.status = 200 /\ last'.user \in courses'[c].students
       /\ \A h \in DOMAIN homework :
            (/\ last'.op = "submit_homework" /\ last'.pk = h
             /\ last'.user \in homework_course(homework[h]).students)
                => IF submissions_of(submissions, h, last'.user) = {}
                   THEN last'.status = 201
                   ELSE last'.status = 400 /\ last'.code = "DUPLICATE_SUBMISSION"
       /\ \A x \in DOMAIN submissions :
            /\ (/\ last'.op = "grade_submission" /\ last'.pk = x
                /\ last'.user = submission_course(submissions[x]).teacher)
                    => IF ~has_grade(x)
                       THEN last'.status = 201
                       ELSE last'.status = 400 /\ last'.code = "GRADE_ALREADY_EXISTS"
            /\ (/\ last'.op = "update_grade" /\ last'.pk = x
                /\ last'.user = submission_course(submissions[x]).teacher
                /\ has_grade(x))
                    => last'.status = 200]_vars

\* The users for whom the owner predicate of IsCourseOwner holds on a course
course_owners(course) ==
    {u \in Users : IsCourseOwner_has_object_permission(u, course)}

\* C12: in every reachable state each course has exactly one owner, who
\* has the teacher role and satisfies Course.is_teacher; a course comes
\* into being only by a create request, with the caller as its owner; and
\* no request changes the owner of an existing course.
C12_OneOwner ==
    /\ [](\A c \in DOMAIN courses :
            /\ Cardinality(course_owners(courses[c])) = 1
            /\ course_owners(courses[c]) = {courses[c].teacher}
            /\ role(courses[c].teacher) = "teacher"
            /\ is_teacher(courses[c], courses[c].teacher))
    /\ [][\A c \in DOMAIN courses' :
            IF c \in DOMAIN courses
            THEN courses'[c].teacher = courses[c].teacher
            ELSE /\ last'.op = "course_create"
                 /\ last'.status = 201
                 /\ courses'[c].teacher = last'.user]_vars

\* The owner just updated a course that also has a co-teacher and a student
C12_Witness ==
    /\ last.op \in {"course_update", "course_partial_update"}
    /\ last.status = 200
    /\ last.pk \in DOMAIN courses
    /\ courses[last.pk].teacher = last.user
    /\ courses[last.pk].teachers \ {last.user} # {}
    /\ courses[last.pk].students # {}

CourseWriteOps == {"course_update", "course_partial_update", "course_destroy"}

\* C13: an update, partial update or delete of a course by a caller who is
\* not its primary teacher (a co-teacher, an unrelated teacher, a student)
\* is rejected with 403 or 404 and leaves every table as it was; and a
\* course's content or existence changes only in a step whose caller is its
\* primary teacher.
C13_OwnerOnlyCourseWrite ==
    [][\A c \in DOMAIN courses :
          /\ (/\ last'.op \in CourseWriteOps /\ last'.pk = c
              /\ last'.user # courses[c].teacher)
                  => /\ last'.status \in {403, 404}
                     /\ tables' = tables
          /\ (c \notin DOMAIN courses' \/ courses'[c].is_active # courses[c].is_active)
                  => /\ last'.op \in CourseWriteOps
                     /\ last'.pk = c
                     /\ last'.user = courses[c].teacher]_vars

\* A co-teacher who is not the owner was just refused an update of the course
C13_Witness ==
    /\ last.op \in CourseWriteOps
    /\ last.pk \in DOMAIN courses
    /\ last.user \in courses[last.pk].teachers \ {courses[last.pk].teacher}
    /\ last.status = 403

\* C14: the co-teacher set of a course changes only in a step whose caller
\* is the course's owner; add_teacher and remove_teacher by a co-teacher
\* who is not the owner change nothing.
C14_OwnerOnlyTeacherRoster ==
    [][\A c \in DOMAIN courses \cap DOMAIN courses' :
          courses'[c].teachers # courses[c].teachers
              => /\ last'.op \in {"add_teacher", "remove_teacher"}
                 /\ last'.user = courses[c].teacher]_vars

RosterOps ==
    {"add_teacher", "remove_teacher", "add_student", "remove_student", "list_students"}

\* C15: add_teacher, remove_teacher, add_student, remove_student and
\* list_students on a course, by a caller who is neither its primary
\* teacher nor one of its co-teachers, are rejected with 403 or 404, leave
\* the course as it was and return no data.
C15_RosterTeachersOnly ==
    [][\A c \in DOMAIN courses :
          (/\ last'.op \in RosterOps /\ last'.pk = c
           /\ last'.user # courses[c].teacher
           /\ last'.user \notin courses[c].teachers)
              => /\ last'.status \in {403, 404}
                 /\ last'.data = {}
                 /\ tables' = tables]_vars

\* A student enrolled in the course was just refused its student list
C15_Witness ==
    /\ last.op = "list_students"
    /\ last.pk \in DOMAIN courses
    /\ last.user \in courses[last.pk].students
    /\ Cardinality(courses[last.pk].students) > 1
    /\ last.status = 403
    /\ last.data = {}

\* Creating, updating and deleting lectures and homework, through every
\* route and by every user
NextContent ==
    \/ Setup({"S1"})
    \/ \E user \in Users, pk \in CoursePks : create_lecture(user, pk, TRUE)
    \/ \E user \in Users, pk \in CoursePks, lecture_id \in LecturePks, topic \in Topics :
            update_lecture(user, pk, lecture_id, topic)
    \/ \E user \in Users, pk \in CoursePks, lecture_id \in LecturePks :
            delete_lecture(user, pk, lecture_id)
    \/ \E user \in Users : LectureViewSet_create(user, TRUE)
    \/ \E user \in Users, pk \in LecturePks, partial \in BOOLEAN :
            LectureViewSet_update(user, pk, partial, "topic2")
    \/ \E user \in Users, pk \in LecturePks : LectureViewSet_destroy(user, pk)
    \/ \E user \in Users, lecture \in LecturePks : HomeworkViewSet_create(user, lecture)
    \/ \E user \in Users, pk \in HomeworkPks, partial \in BOOLEAN :
            HomeworkViewSet_update(user, pk, partial, "title2", NewDueDate)
    \/ \E user \in Users, pk \in HomeworkPks : HomeworkViewSet_destroy(user, pk)
    \/ \E user \in Users, lecture_pk \in LecturePks :
            LectureHomeworkViewSet_create(user, lecture_pk)
    \/ \E user \in Users, lecture_pk \in LecturePks, pk \in HomeworkPks, partial \in BOOLEAN :
            LectureHomeworkViewSet_update(user, lecture_pk, pk, partial, "title2")
    \/ \E user \in Users, lecture_pk \in LecturePks, pk \in HomeworkPks :
            LectureHomeworkViewSet_destroy(user, lecture_pk, pk)

SpecContent == Init /\ [][NextContent]_vars

\* The course of lecture l and of homework h in a step that creates,
\* changes or deletes the row
step_lecture_course(l) ==
    IF l \in DOMAIN lectures THEN lectures[l].course ELSE lectures'[l].course
step_homework_course(h) ==
    lectures[IF h \in DOMAIN homework THEN homework[h].lecture
             ELSE homework'[h].lecture].course

\* C16: through every route, a lecture or a homework is created, changed
\* or deleted only in a step whose caller is, in the state the request
\* arrives in, the primary teacher or a co-teacher of the owning course.
C16_ContentTeachersOnly ==
    [][/\ \A l \in DOMAIN lectures \cup DOMAIN lectures' :
            (l \notin DOMAIN lectures \/ l \notin DOMAIN lectures'
                \/ lectures'[l] # lectures[l])
                => is_teacher(courses[step_lecture_course(l)], last'.user)
       /\ \A h \in DOMAIN homework \cup DOMAIN homework' :
            (h \notin DOMAIN homework \/ h \notin DOMAIN homework'
                \/ homework'[h] # homework[h])
                => is_teacher(courses[step_homework_course(h)], last'.user)]_vars

\* A student enrolled in the course was just refused an update of one of
\* its lectures through the course-nested route
C16_Witness ==
    /\ last.op = "update_lecture"
    /\ last.pk \in DOMAIN courses
    /\ last.pk2 \in course_lectures(last.pk)
    /\ last.user \in courses[last.pk].students
    /\ last.status = 403
    /\ lectures[last.pk2].topic = NewTopic

\* The courses of user u: as primary teacher or co-teacher for a teacher,
\* as enrolled student for a student
courses_of(u) ==
    IF u \in Teachers
    THEN {c \in DOMAIN courses : courses[c].teacher = u \/ u \in courses[c].teachers}
    ELSE {c \in DOMAIN courses : u \in courses[c].students}

\* C17: the course list returned to a user is exactly the user's courses,
\* and the lecture list and the homework list are exactly the lectures and
\* the homework whose owning course is one of them.
C17_ListsScoped ==
    /\ last.op = "course_list"
           => /\ last.status = 200
              /\ last.data = {<<"course", c>> : c \in courses_of(last.user)}
    /\ last.op = "lecture_list"
           => /\ last.status = 200
              /\ last.data = {<<"lecture", l>> :
                                l \in {l \in DOMAIN lectures :
                                          lectures[l].course \in courses_of(last.user)}}
    /\ last.op = "homework_list"
           => /\ last.status = 200
              /\ last.data = {<<"homework", h>> :
                                h \in {h \in DOMAIN homework :
                                          lectures[homework[h].lecture].course
                                              \in courses_of(last.user)}}

\* A student who left the course was just given an empty lecture list,
\* while the course has a lecture
C17_Witness ==
    /\ last.op = "lecture_list"
    /\ last.user \in Students
    /\ last.data = {}
    /\ lectures # <<>>
    /\ \E s \in DOMAIN submissions : submissions[s].student = last.user

\* Ids that name no row: one past the last id a table can give out
MissingCourse == MaxCourses + 1
MissingLecture == MaxLectures + 1
MissingHomework == MaxHomework + 1
MissingSubmission == MaxSubmissions + 1

\* The rows outside the visible scope of user u
hidden_courses(u) == DOMAIN courses \ courses_of(u)
hidden_lectures(u) == {l \in DOMAIN lectures : lectures[l].course \in hidden_courses(u)}
hidden_homework(u) == {h \in DOMAIN homework : homework[h].lecture \in hidden_lectures(u)}
hidden_submissions(u) ==
    IF u \in Teachers
    THEN {s \in DOMAIN submissions : submissions[s].homework \in hidden_homework(u)}
    ELSE {s \in DOMAIN submissions : submissions[s].student # u}

\* C18: for every by-id request and every caller, the response when the
\* target exists outside the caller's visible scope equals the response
\* when no row has that id.
C18_HiddenLooksMissing ==
    \A u \in Users :
        /\ \A c \in hidden_courses(u) :
                /\ CourseViewSet_retrieve_result(u, c)
                        = CourseViewSet_retrieve_result(u, MissingCourse)
                /\ list_lectures_result(u, c) = list_lectures_result(u, MissingCourse)
        /\ \A l \in hidden_lectures(u) :
                /\ LectureViewSet_retrieve_result(u, l)
                        = LectureViewSet_retrieve_result(u, MissingLecture)
                /\ LectureHomeworkViewSet_list_result(u, l)
                        = LectureHomeworkViewSet_list_result(u, MissingLecture)
                /\ \A h \in HomeworkPks :
                        LectureHomeworkViewSet_retrieve_result(u, l, h)
                            = LectureHomeworkViewSet_retrieve_result(u, MissingLecture, h)
        /\ \A h \in hidden_homework(u) :
                /\ HomeworkViewSet_retrieve_result(u, h)
                        = HomeworkViewSet_retrieve_result(u, MissingHomework)
                /\ get_submissions_result(u, h) = get_submissions_result(u, MissingHomework)
        /\ \A s \in hidden_submissions(u) :
                HomeworkSubmissionViewSet_retrieve_result(u, s)
                    = HomeworkSubmissionViewSet_retrieve_result(u, MissingSubmission)

\* The error codes the five state-machine violations answer with in the
\* current state, one set per violation: a student who submitted submits
\* again, a course teacher grades a graded submission, an enrolled student
\* enrolls, a student who is not enrolled unenrolls, a teacher of the course
\* removes its owner
duplicate_submission_codes ==
    {submit_homework_result(submissions[s].student, submissions[s].homework, "a").resp.code :
        s \in DOMAIN submissions}
already_graded_codes ==
    {grade_submission_result(p[1], grades[p[2]].submission, "low").resp.code :
        p \in {q \in Teachers \X DOMAIN grades :
                 is_teacher(submission_course(submissions[grades[q[2]].submission]), q[1])}}
already_enrolled_codes ==
    {enroll_in_course_result(p[1], p[2]).resp.code :
        p \in {q \in Students \X DOMAIN courses : q[1] \in courses[q[2]].students}}
not_enrolled_codes ==
    {unenroll_from_course_result(p[1], p[2]).resp.code :
        p \in {q \in Students \X DOMAIN courses : q[1] \notin courses[q[2]].students}}
remove_owner_codes ==
    {remove_teacher_result(p[1], p[2], courses[p[2]].teacher).resp.code :
        p \in {q \in Teachers \X DOMAIN courses : is_teacher(courses[q[2]], q[1])}}
violation_codes ==
    <<duplicate_submission_codes, already_graded_codes, already_enrolled_codes,
      not_enrolled_codes, remove_owner_codes>>

\* Codes that name no particular violation: none at all, or the code every
\* framework exception is answered with
GenericCodes == {NoCode, "API_ERROR", "INTERNAL_SERVER_ERROR"}

\* C19: each of the five violations (duplicate submission, already graded,
\* already enrolled, not enrolled on unenroll, removing the course owner)
\* answers with a symbolic error code of its own: never without a code or
\* with a generic one, and never with a code another violation answers with.
C19_ViolationsToldApartByCode ==
    \A i \in 1..5 :
        /\ violation_codes[i] \cap GenericCodes = {}
        /\ \A j \in 1..5 : i # j => violation_codes[i] \cap violation_codes[j] = {}

\* C20: enroll_in_course by a student on a course that is closed
\* (is_active false) or that the student is already enrolled in fails with
\* status 400 and leaves the course's student set unchanged.
C20_EnrollRefused400 ==
    [][ (/\ last'.op = "enroll_in_course"
         /\ last'.user \in Students
         /\ last'.pk \in DOMAIN courses
         /\ \/ ~courses[last'.pk].is_active
            \/ last'.user \in courses[last'.pk].students)
        => /\ last'.status = 400
           /\ courses'[last'.pk].students = courses[last'.pk].students ]_vars

\* C21: unenroll_from_course succeeds exactly when the caller is a student
\* in the course's student set; a success removes that student from that
\* course and changes nothing else (other enrollments, teacher rosters,
\* lectures, homework, submissions, grades); a failure changes nothing.
C21_UnenrollExact ==
    [][ last'.op = "unenroll_from_course" =>
            LET u == last'.user
                pk == last'.pk
                enrolled == /\ pk \in DOMAIN courses
                            /\ u \in Students
                            /\ u \in courses[pk].students IN
            /\ Succeeds <=> enrolled
            /\ courses' = IF enrolled
                          THEN [courses EXCEPT ![pk].students = @ \ {u}]
                          ELSE courses
            /\ UNCHANGED <<lectures, homework, submissions, grades>> ]_vars
C21_Witness ==
    /\ last.op = "unenroll_from_course"
    /\ last.status = 200
    /\ courses[last.pk].students # {}
    /\ \E s \in DOMAIN submissions :
            submissions[s].student = last.user /\ has_grade(s)

\* C22: the late flag of a submission is fixed when the submission is
\* created: whatever happens later, a teacher moving the homework's due date
\* included, is_late keeps its value.
C22_LateFlagFixed ==
    [][ \A s \in DOMAIN submissions \cap DOMAIN submissions' :
            HomeworkSubmission_is_late(submissions'[s], homework')
                = HomeworkSubmission_is_late(submissions[s], homework) ]_vars

\* C23: a grade_submission or update_grade request changes the grades only
\* when its caller has the teacher role and is the owner or a co-teacher of
\* the course of the submission; a Grade it creates is for that submission
\* and has the caller as graded_by.  Students and teachers of other courses
\* neither create nor update a Grade.
C23_GradesByCourseTeachersOnly ==
    [][ (last'.op \in {"grade_submission", "update_grade"} /\ grades' # grades) =>
            /\ last'.user \in Teachers
            /\ last'.pk \in DOMAIN submissions
            /\ is_teacher(submission_course(submissions[last'.pk]), last'.user)
            /\ \A g \in DOMAIN grades' \ DOMAIN grades :
                    /\ grades'[g].graded_by = last'.user
                    /\ grades'[g].submission = last'.pk
            /\ \A g \in DOMAIN grades :
                    /\ g \in DOMAIN grades'
                    /\ grades'[g].graded_by = grades[g].graded_by
                    /\ grades[g].submission # last'.pk => grades'[g] = grades[g] ]_vars
C23_Witness ==
    /\ last.op = "update_grade"
    /\ last.status = 200
    /\ has_grade(last.pk)
    /\ grades[grade_of(last.pk)].grade = MaxGrade
    /\ grades[grade_of(last.pk)].graded_by # last.user

\* C24: a submit_homework request changes the submissions only by adding
\* one submission whose student is the caller and whose homework is the one
\* named, the caller being a student in the student set of the homework's
\* course; a teacher or a student who is not enrolled creates nothing, and
\* nobody creates a submission for another user.
C24_SubmissionsByEnrolledCaller ==
    [][ last'.op = "submit_homework" =>
            LET u == last'.user
                pk == last'.pk
                allowed == /\ u \in Students
                           /\ pk \in DOMAIN homework
                           /\ u \in homework_course(homework[pk]).students IN
            /\ ~allowed => submissions' = submissions
            /\ \A s \in DOMAIN submissions :
                    s \in DOMAIN submissions' /\ submissions'[s] = submissions[s]
            /\ \A s \in DOMAIN submissions' \ DOMAIN submissions :
                    submissions'[s].student = u /\ submissions'[s].homework = pk ]_vars
C24_Witness ==
    /\ last.op = "submit_homework"
    /\ last.pk \in DOMAIN homework
    /\ last.arg = <<"a">>
    /\ \/ last.user \in Teachers /\ is_teacher(homework_course(homework[last.pk]), last.user)
       \/ last.user \in Students /\ last.user \notin homework_course(homework[last.pk]).students
    /\ last.status \in {403, 404}

\* C25: the containment chain has no orphans: every lecture refers to an
\* existing course, every homework to an existing lecture, every submission
\* to an existing homework and every grade to an existing submission, so a
\* deleted course, lecture or homework takes all it contains with it.
C25_NoOrphans ==
    /\ \A l \in DOMAIN lectures : lectures[l].course \in DOMAIN courses
    /\ \A h \in DOMAIN homework : homework[h].lecture \in DOMAIN lectures
    /\ \A s \in DOMAIN submissions : submissions[s].homework \in DOMAIN homework
    /\ \A g \in DOMAIN grades : grades[g].submission \in DOMAIN submissions
C25_Witness ==
    /\ last.op \in {"delete_lecture", "lecture_destroy"}
    /\ last.status = 204
    /\ next_id.grade > 1
    /\ courses # <<>>
    /\ grades = <<>>
C25_WitnessCourse ==
    /\ last.op = "course_destroy"
    /\ last.status = 204
    /\ next_id.grade > 1
    /\ grades = <<>>
C25_WitnessHomework ==
    /\ last.op = "homework_destroy"
    /\ last.status = 204
    /\ next_id.grade > 1
    /\ lectures # <<>>
    /\ grades = <<>>

\* C26: a request answered with 403 (permission denied), 404 (not found)
\* or 400 (business rule or validation) leaves the whole resource graph as
\* it was: courses with their rosters and fields, lectures, homework,
\* submissions and grades.
C26_RefusedChangesNothing ==
    [][ last'.status \in {400, 403, 404} =>
            UNCHANGED <<courses, lectures, homework, submissions, grades>> ]_vars
C26_Witness ==
    /\ last.status = 400
    /\ last.op = "update_grade"
    /\ grades # <<>>
    /\ \E c \in DOMAIN courses : courses[c].students # {}

\* The submissions a response carries, with those its grades belong to
returned_submissions ==
    {d[2] : d \in {e \in last.data : e[1] = "submission"}}
        \cup {grades[d[2]].submission : d \in {e \in last.data : e[1] = "grade"}}

\* C27: through get_submissions, the submissions list and submission
\* retrieve a student receives only submissions (and grades of submissions)
\* whose student is that student, while a teacher of the course receives
\* the submissions of all students for the course's homework.
C27_StudentsSeeOwnOnly ==
    /\ (last.op \in {"get_submissions", "submission_list", "submission_retrieve"}
            /\ last.user \in Students)
        => \A s \in returned_submissions : submissions[s].student = last.user
    /\ (last.op = "get_submissions" /\ last.user \in Teachers
            /\ last.pk \in DOMAIN homework
            /\ is_teacher(homework_course(homework[last.pk]), last.user))
        => /\ last.status = 200
           /\ returned_submissions
                = {s \in DOMAIN submissions : submissions[s].homework = last.pk}
    /\ (last.op = "submission_list" /\ last.user \in Teachers)
        => returned_submissions
                = {s \in DOMAIN submissions :
                        is_teacher(submission_course(submissions[s]), last.user)}
C27_Witness ==
    /\ last.op = "get_submissions"
    /\ last.user \in Students
    /\ last.status = 200
    /\ \E g \in DOMAIN grades : submissions[grades[g].submission].student = last.user
    /\ Cardinality(returned_submissions) = 1
    /\ Cardinality({s \in DOMAIN submissions : submissions[s].homework = last.pk}) = 2

\* C28: in every reachable state every member of a course's student set
\* has the student role, every member of its co-teacher set and its owner
\* have the teacher role, and nobody is both a teacher (owner or
\* co-teacher) and an enrolled student of one course.
C28_RostersByRole ==
    \A c \in DOMAIN courses :
        /\ \A u \in courses[c].students : role(u) = "student"
        /\ \A u \in courses[c].teachers : role(u) = "teacher"
        /\ role(courses[c].teacher) = "teacher"
        /\ \A u \in Users : ~(is_teacher(courses[c], u) /\ is_enrolled_student(courses[c], u))
C28_Witness ==
    /\ last.op = "add_student"
    /\ last.arg = <<"T2">>
    /\ last.code = "INVALID_USER_ROLE"
    /\ last.pk \in DOMAIN courses
    /\ "T2" \in courses[last.pk].teachers
    /\ courses[last.pk].students # {}

\* C29: neither enroll_in_course nor the teacher's add_student adds a
\* student to a course whose is_active is false, and neither reports
\* success for a student who is already enrolled.
C29_SameGuardsOnEveryPath ==
    [][ (last'.op \in {"enroll_in_course", "add_student"} /\ last'.pk \in DOMAIN courses) =>
            LET pk == last'.pk
                student == IF last'.op = "add_student" THEN last'.arg[1] ELSE last'.user IN
            /\ ~courses[pk].is_active => courses'[pk].students = courses[pk].students
            /\ student \in courses[pk].students => ~Succeeds ]_vars

====
